---- MODULE Spec2Model ----
(***************************************************************************)
(* GoAudits pipeline (ingest -> enrich -> score) of mcs-scheduled-workers. *)
(* The SQL tables are sets of rows; a primary key is enforced by the       *)
(* insert operators, which report a duplicate-key error (2627/2601) the    *)
(* way SQL Server does.  A pipeline run is a process; its three workers    *)
(* are sub-processes that interleave at the awaits of the source.          *)
(***************************************************************************)
EXTENDS Integers, Sequences, FiniteSets, Bags, TLC

\* ---------------------------------------------------------------- bounds
MaxTime == 2
MaxItems == 2
MaxRuns == 2
MaxFaults == 1
MaxRemoteChanges == 1
MaxRules == 2
MaxScriptLen == 5

\* ------------------------------------------------------ program constants
JOB_NAME == "GoAuditsPipeline"
INGESTION_JOB_NAME == "GoAuditsIngestion"
ENRICHMENT_JOB_NAME == "GoAuditsEnrichment"
SCORING_JOB_NAME == "GoAuditsScoring"
DETAILS_CONCURRENCY == 3
\* a retry budget of one attempt more
MAX_RETRIES_PLUS_ONE == 5 + 1
MAX_RETRIES == 5
DEFAULT_RULESET_MAP == [PV |-> "v2", HeatPump |-> "v3"]

\* new Date(0): the watermark read when the row is absent or NULL
Epoch == 0
\* parseCompletedAt returns null for a missing or unparseable timestamp
NoTime == -1
\* JavaScript null / SQL NULL for string-valued fields
Null == "<null>"

Runs == 1..MaxRuns
Workers == 1..DETAILS_CONCURRENCY
Times == 1..MaxTime

\* report ids in String.localeCompare order
IdOrder == <<"R1", "R2", "R3", "R4">>
ReportIds == {IdOrder[i] : i \in 1..Len(IdOrder)}
IdRank(id) == CHOOSE i \in 1..Len(IdOrder) : IdOrder[i] = id

Max(a, b) == IF a >= b THEN a ELSE b
Min(a, b) == IF a <= b THEN a ELSE b

VARIABLES
  JobWatermark,           \* dbo.JobWatermark: rows [jobName, watermarkUtc]
  JobRunHistory,          \* dbo.JobRunHistory: rows [runId, status]
  ProcessedItems,         \* dbo.ProcessedItems (ledger): rows [jobName, itemKey, runId]
  GoAuditsReports,        \* rows [reportId, completedAtUtc, certificationNumber, jobRunId]
  GoAuditsReportAnswers,  \* rows [reportId, questionKey, answerValue]
  GoAuditsFindings,       \* rows [reportId, ruleSetName, ruleSetVersion, questionKey, ...]
  GoAuditsScores,         \* rows [reportId, ruleSetName, ruleSetVersion, majorCount, ...]
  GoAuditsEmailOutbox,    \* a bag of rows [reportId, ruleSetName, ruleSetVersion,
                          \*   certificateNumber, recipientEmail, status]
  Installation,           \* dbo.Installation: rows [id, certificateNumber, installerId]
  remoteSummary,          \* what the summary endpoint answers now
  remoteDetails,          \* what the details endpoint answers now, per report
  rulesFiles,             \* the rule documents on disk, per rule set name
  remoteScripts,          \* the response sequences a failing HTTP call may meet
  run,                    \* main()'s locals, per run
  counts,                 \* main()'s counts object, per run
  queue,                  \* the worker queue of a run
  worker,                 \* processReport's locals, per run and worker
  faults,                 \* failures the store and the remote API may still raise
  changes                 \* changes the remote side may still make

dbVars == <<JobWatermark, JobRunHistory, ProcessedItems, GoAuditsReports,
            GoAuditsReportAnswers, GoAuditsFindings, GoAuditsScores,
            GoAuditsEmailOutbox>>
envVars == <<Installation, remoteSummary, remoteDetails, rulesFiles, remoteScripts>>
vars == <<JobWatermark, JobRunHistory, ProcessedItems, GoAuditsReports,
          GoAuditsReportAnswers, GoAuditsFindings, GoAuditsScores, GoAuditsEmailOutbox,
          Installation, remoteSummary, remoteDetails, rulesFiles, remoteScripts,
          run, counts, queue, worker, faults, changes>>

\* ------------------------------------------------------------- the store

\* getWatermark: absent row => epoch, exists=false; NULL value => epoch
getWatermark(tbl) ==
  IF \E w \in tbl : w.jobName = INGESTION_JOB_NAME
  THEN LET w == CHOOSE w \in tbl : w.jobName = INGESTION_JOB_NAME
       IN [watermark |-> w.watermarkUtc, exists |-> TRUE]
  ELSE [watermark |-> Epoch, exists |-> FALSE]

\* updateWatermark: IF EXISTS ... UPDATE ... ELSE INSERT, unconditional on the value
updateWatermark(tbl, watermarkUtc) ==
  {w \in tbl : w.jobName # INGESTION_JOB_NAME}
    \cup {[jobName |-> INGESTION_JOB_NAME, watermarkUtc |-> watermarkUtc]}

\* isProcessed: SELECT TOP (1) ... FROM ProcessedItems WHERE JobName, ItemKey
isProcessed(tbl, jobName, itemKey) ==
  \E p \in tbl : p.jobName = jobName /\ p.itemKey = itemKey

\* a ledger without its primary key
LedgerDuplicateNever(tbl, jobName, itemKey) == FALSE

\* PK_ProcessedItems (JobName, ItemKey): the insert fails with 2627 on a duplicate
LedgerDuplicate(tbl, jobName, itemKey) == isProcessed(tbl, jobName, itemKey)
LedgerInsert(tbl, jobName, itemKey, runId) ==
  tbl \cup {[jobName |-> jobName, itemKey |-> itemKey, runId |-> runId]}

\* PK_GoAuditsReports (GoAuditsReportId)
ReportDuplicate(tbl, reportId) == \E x \in tbl : x.reportId = reportId
ReportInsert(tbl, item, runId) ==
  tbl \cup {[reportId |-> item.reportId, completedAtUtc |-> item.completedAtUtc,
             certificationNumber |-> item.certificationNumber, jobRunId |-> runId]}

\* insertJobRun / updateJobRun
\* a run history to which every status change adds a row
updateJobRunAppends(tbl, runId, status) ==
  tbl \cup {[runId |-> runId, status |-> status]}

insertJobRun(tbl, runId, status) == tbl \cup {[runId |-> runId, status |-> status]}
updateJobRun(tbl, runId, status) ==
  {h \in tbl : h.runId # runId}
    \cup {[runId |-> h.runId, status |-> status] : h \in {x \in tbl : x.runId = runId}}

\* ---------------------------------------------------- batch selection

\* the comparator of eligible.sort: completedAtUtc, then reportId
ItemLeq(a, b) ==
  \/ a.completedAtUtc < b.completedAtUtc
  \/ a.completedAtUtc = b.completedAtUtc /\ IdRank(a.reportId) <= IdRank(b.reportId)

RECURSIVE InsertSorted(_, _)
InsertSorted(x, s) ==
  IF s = <<>> THEN <<x>>
  ELSE IF ItemLeq(s[Len(s)], x) THEN Append(s, x)
  ELSE Append(InsertSorted(x, SubSeq(s, 1, Len(s) - 1)), s[Len(s)])

RECURSIVE SortItems(_)
SortItems(s) ==
  IF s = <<>> THEN <<>>
  ELSE InsertSorted(s[Len(s)], SortItems(SubSeq(s, 1, Len(s) - 1)))

\* a lower bound that never falls below the watermark
LowerBoundMax(cfg, watermark) ==
  IF cfg.startOverride > watermark THEN cfg.startOverride ELSE watermark

\* lowerBound = startOverride || watermark ; upperBound = endOverride || null
LowerBound(cfg, watermark) ==
  IF cfg.startOverride # NoTime THEN cfg.startOverride ELSE watermark

\* a filter that lets an item completed exactly at the lower bound through
IsEligibleFromBound(item, cfg, watermark) ==
  /\ item.reportId # Null
  /\ item.completedAt # NoTime
  /\ ~(item.completedAt < LowerBound(cfg, watermark))
  /\ ~(cfg.endOverride # NoTime /\ item.completedAt > cfg.endOverride)

\* the eligibility filter of main(): one summary item
IsEligible(item, cfg, watermark) ==
  /\ item.reportId # Null
  /\ item.completedAt # NoTime
  /\ ~(item.completedAt <= LowerBound(cfg, watermark))
  /\ ~(cfg.endOverride # NoTime /\ item.completedAt > cfg.endOverride)

RECURSIVE EligibleOf(_, _, _)
EligibleOf(items, cfg, watermark) ==
  IF items = <<>> THEN <<>>
  ELSE LET rest == EligibleOf(Tail(items), cfg, watermark)
           it == Head(items)
       IN IF IsEligible(it, cfg, watermark)
          THEN <<[reportId |-> it.reportId, completedAtUtc |-> it.completedAt,
                  certificationNumber |-> Null, hint |-> it.hint]>> \o rest
          ELSE rest

\* a batch cut at batchSize, without the items tied with its last one
TieEndAtBatchSize(eligible, index) == index

\* eligible.slice(0, batchSize) extended by the items tied with its last one
RECURSIVE TieEnd(_, _)
TieEnd(eligible, index) ==
  IF index < Len(eligible)
     /\ eligible[index + 1].completedAtUtc = eligible[index].completedAtUtc
  THEN TieEnd(eligible, index + 1)
  ELSE index

SelectBatch(eligible, batchSize) ==
  IF eligible = <<>> THEN <<>>
  ELSE SubSeq(eligible, 1, TieEnd(eligible, Min(batchSize, Len(eligible))))

\* ------------------------------------------------------------ HTTP calls

\* what one POST attempt can meet: a 2xx status with a JSON array, with a body
\* that is not JSON, with JSON that is not an array; a status 401 or 403; 429 or
\* 5xx; another non-2xx status; fetch() rejecting; the abort timer firing
AuthResponses == {"r401", "r403"}
StatusRetryResponses == {"r429", "r5xx"}
ExceptionResponses == {"network", "timeout"}
Responses ==
  {"ok", "notJson", "notArray", "rOther"} \cup AuthResponses
    \cup StatusRetryResponses \cup ExceptionResponses

\* the response to the given attempt (1, 2, ...) of a call that the remote answers
\* by script; the remote repeats the last response of the script
ResponseAt(script, attempt) == script[Min(attempt, Len(script))]

\* the state of a call not made yet
NoCall ==
  [attempts |-> 0, last |-> "none", thrown |-> FALSE, fatal |-> FALSE, array |-> FALSE,
   statusRetries |-> 0, exceptionRetries |-> 0]

\* a call that returned after `attempt` POSTs / that threw after `attempt` POSTs
\* (ThrownNotFatal: an error that never carries fatal = true)
Returned(attempt, response, isArray) ==
  [NoCall EXCEPT !.attempts = attempt, !.last = response, !.array = isArray]
ThrownNotFatal(attempt, response, isFatal) ==
  [NoCall EXCEPT !.attempts = attempt, !.last = response, !.thrown = TRUE]
Thrown(attempt, response, isFatal) ==
  [NoCall EXCEPT !.attempts = attempt, !.last = response, !.thrown = TRUE,
                 !.fatal = isFatal]

\* the call went on to another attempt after a 429/5xx status (the continue in
\* the try block) / after an exception (the delay in the catch block)
AfterStatusRetry(call) == [call EXCEPT !.statusRetries = @ + 1]
AfterExceptionRetry(call) == [call EXCEPT !.exceptionRetries = @ + 1]

\* a budget test that lets one more attempt through
ExhaustedLate(attempt) == attempt > MAX_RETRIES

\* attempt >= MAX_RETRIES
Exhausted(attempt) == attempt >= MAX_RETRIES

\* fetchPage: the retry loop of the summary call, from `attempt` POSTs made
RECURSIVE fetchPageFrom(_, _)
fetchPageFrom(script, attempt) ==
  IF ~(attempt < MAX_RETRIES)
  THEN Returned(attempt, ResponseAt(script, attempt), FALSE)
  ELSE LET n == attempt + 1
           response == ResponseAt(script, n)
       IN CASE response \in AuthResponses -> Thrown(n, response, TRUE)
            [] response \in StatusRetryResponses ->
                 IF Exhausted(n) THEN Thrown(n, response, FALSE)
                 ELSE AfterStatusRetry(fetchPageFrom(script, n))
            [] response = "rOther" -> Thrown(n, response, TRUE)
            [] response = "notJson" -> Thrown(n, response, TRUE)
            [] response = "notArray" -> Returned(n, response, FALSE)
            [] response = "ok" -> Returned(n, response, TRUE)
            [] response \in ExceptionResponses ->
                 IF Exhausted(n) THEN Thrown(n, response, FALSE)
                 ELSE AfterExceptionRetry(fetchPageFrom(script, n))

fetchPage(script) == fetchPageFrom(script, 0)

\* fetchWithRetry: the retry loop of the details call, from `attempt` POSTs made
RECURSIVE fetchWithRetryFrom(_, _)
fetchWithRetryFrom(script, attempt) ==
  IF ~(attempt < MAX_RETRIES)
  THEN Thrown(attempt, ResponseAt(script, attempt), FALSE)
  ELSE LET n == attempt + 1
           response == ResponseAt(script, n)
       IN CASE response \in AuthResponses -> Thrown(n, response, TRUE)
            [] response \in StatusRetryResponses ->
                 IF Exhausted(n) THEN Thrown(n, response, FALSE)
                 ELSE AfterStatusRetry(fetchWithRetryFrom(script, n))
            [] response = "rOther" -> Thrown(n, response, FALSE)
            [] response = "notJson" -> Thrown(n, response, FALSE)
            [] response = "notArray" -> Thrown(n, response, FALSE)
            [] response = "ok" -> Returned(n, response, TRUE)
            [] response \in ExceptionResponses ->
                 IF Exhausted(n) THEN Thrown(n, response, FALSE)
                 ELSE AfterExceptionRetry(fetchWithRetryFrom(script, n))

fetchWithRetry(script) == fetchWithRetryFrom(script, 0)

\* the script of a call that meets no failure
OkScript == <<"ok">>

\* the scripts a call may meet while the remote may still fail
ScriptsNow == {OkScript} \cup (IF faults > 0 THEN remoteScripts ELSE {})

\* ---------------------------------------------------- details payload

\* String.prototype.trim and toLowerCase on the strings the model uses
Trim(s) == CASE s = " " -> "" [] s = "Bolt-on " -> "Bolt-on" [] OTHER -> s
ToLowerCase(s) == CASE s = "Bolt-on" -> "bolt-on" [] s = "Bolt-on " -> "bolt-on " [] OTHER -> s

\* /certificate number/i.test(questionText)
IsCertificateQuestion(text) == text = "MCS Certificate Number"

\* extractCertificate: the first row (of any RecordType) that names the certificate
RECURSIVE extractCertificate(_)
extractCertificate(rows) ==
  IF rows = <<>> THEN Null
  ELSE LET row == Head(rows)
       IN IF /\ (Trim(row.QUESTION_ID) = "1" \/ IsCertificateQuestion(row.Question))
             /\ row.Answer # Null
             /\ Trim(row.Answer) # ""
          THEN Trim(row.Answer)
          ELSE extractCertificate(Tail(rows))

\* normalizeQuestionKey on a row that carries a QUESTION_ID or only question text
QuestionKeyOf(row) ==
  IF row.QUESTION_ID # Null /\ Trim(row.QUESTION_ID) # "" THEN Trim(row.QUESTION_ID)
  ELSE IF row.Question = "" THEN Null
  ELSE "q_text"

\* extractAnswers: Detail rows only, first occurrence of a question key wins
RECURSIVE extractAnswers(_, _)
extractAnswers(rows, seen) ==
  IF rows = <<>> THEN <<>>
  ELSE LET row == Head(rows)
           key == QuestionKeyOf(row)
           skip == \/ row.RecordType # "Detail"
                   \/ (Trim(row.Question) = "" /\ (row.Answer = Null \/ Trim(row.Answer) = ""))
                   \/ key = Null
                   \/ key \in seen
       IN IF skip THEN extractAnswers(Tail(rows), seen)
          ELSE <<[questionKey |-> key, answerValue |-> row.Answer]>>
                 \o extractAnswers(Tail(rows), seen \cup {key})

\* buildAnswerMap / loadAnswers: questionKey -> answerValue
buildAnswerMap(answers) ==
  [k \in {answers[i].questionKey : i \in 1..Len(answers)} |->
     (CHOOSE a \in {answers[i] : i \in 1..Len(answers)} : a.questionKey = k).answerValue]

loadAnswers(tbl, reportId) ==
  [k \in {a.questionKey : a \in {x \in tbl : x.reportId = reportId}} |->
     (CHOOSE a \in tbl : a.reportId = reportId /\ a.questionKey = k).answerValue]

\* a test that takes every response for one with a Detail row
hasDetailAlways(rows) == TRUE

\* rows.some((row) => row && row.RecordType === 'Detail')
hasDetail(rows) == \E i \in 1..Len(rows) : rows[i].RecordType = "Detail"

\* ------------------------------------------------------- rule evaluation

\* normalizeAnswer
normalizeAnswer(value, opts) ==
  IF value = Null THEN Null
  ELSE LET t == IF opts.trim THEN Trim(value) ELSE value
       IN IF opts.emptyIsNull /\ t = "" THEN Null
          ELSE IF opts.caseInsensitive THEN ToLowerCase(t) ELSE t

\* the normalisation options of one rule: the document defaults, overridden per rule
NormOpts(rule, defaultNorm) ==
  [trim |-> IF rule.nonCompliantWhen.trim = Null THEN defaultNorm.trim
            ELSE rule.nonCompliantWhen.trim = "true",
   caseInsensitive |-> IF rule.nonCompliantWhen.caseInsensitive = Null
                       THEN defaultNorm.caseInsensitive
                       ELSE rule.nonCompliantWhen.caseInsensitive = "true",
   emptyIsNull |-> defaultNorm.emptyIsNull]

AnswerRaw(rule, answerMap) ==
  IF rule.questionKey \in DOMAIN answerMap THEN answerMap[rule.questionKey] ELSE Null

KnownOps == {"missing", "equals", "in"}

\* the switch of evaluateRule
IsNonCompliant(rule, answerMap, defaultNorm) ==
  LET nc == rule.nonCompliantWhen
      opts == NormOpts(rule, defaultNorm)
      answerNorm == normalizeAnswer(AnswerRaw(rule, answerMap), opts)
  IN CASE nc.op = "missing" -> answerNorm = Null \/ answerNorm = ""
       [] nc.op = "equals" ->
            LET expected == normalizeAnswer(nc.value, opts)
            IN expected # Null /\ answerNorm = expected
       [] nc.op = "in" ->
            answerNorm # Null /\ answerNorm \in {normalizeAnswer(v, opts) : v \in nc.values}
       [] OTHER -> FALSE

\* an evaluation that does not look at rule.enabled
evaluateRuleIgnoringEnabled(rule, answerMap, defaultNorm) ==
  IF rule.nonCompliantWhen.op \notin KnownOps THEN [kind |-> "throw"]
  ELSE IF ~IsNonCompliant(rule, answerMap, defaultNorm) THEN [kind |-> "none"]
  ELSE [kind |-> "finding",
        questionKey |-> rule.questionKey,
        severity |-> rule.finding.severity,
        majorNonCompliantText |->
          IF rule.finding.severity = "Major" THEN rule.finding.majorNonCompliantText ELSE Null,
        minorNonCompliantText |->
          IF rule.finding.severity = "Minor" THEN rule.finding.minorNonCompliantText ELSE Null]

\* evaluateRule: "none" (null), "finding", or "throw" (Unsupported op)
evaluateRule(rule, answerMap, defaultNorm) ==
  IF ~rule.enabled THEN [kind |-> "none"]
  ELSE IF rule.nonCompliantWhen.op \notin KnownOps THEN [kind |-> "throw"]
  ELSE IF ~IsNonCompliant(rule, answerMap, defaultNorm) THEN [kind |-> "none"]
  ELSE [kind |-> "finding",
        questionKey |-> rule.questionKey,
        severity |-> rule.finding.severity,
        majorNonCompliantText |->
          IF rule.finding.severity = "Major" THEN rule.finding.majorNonCompliantText ELSE Null,
        minorNonCompliantText |->
          IF rule.finding.severity = "Minor" THEN rule.finding.minorNonCompliantText ELSE Null]

\* the loop of scoreReport over rulesDoc.rules: the findings in declaration order
RECURSIVE EvaluateRules(_, _, _)
EvaluateRules(rules, answerMap, defaultNorm) ==
  IF rules = <<>> THEN [threw |-> FALSE, findings |-> <<>>]
  ELSE LET f == evaluateRule(Head(rules), answerMap, defaultNorm)
       IN IF f.kind = "throw" THEN [threw |-> TRUE, findings |-> <<>>]
          ELSE LET rest == EvaluateRules(Tail(rules), answerMap, defaultNorm)
               IN IF rest.threw THEN rest
                  ELSE [threw |-> FALSE,
                        findings |-> (IF f.kind = "finding" THEN <<f>> ELSE <<>>) \o rest.findings]

CountSeverity(findings, severity) ==
  Cardinality({i \in 1..Len(findings) : findings[i].severity = severity})

\* determineOutcome, with scoreReport's || 'Unknown'
RECURSIVE determineOutcome(_, _, _)
determineOutcome(outcomeRules, majorCount, minorCount) ==
  IF outcomeRules = <<>> THEN "Unknown"
  ELSE LET when == Head(outcomeRules).when
       IN IF \/ when.always
             \/ (when.majorCountGte # NoTime /\ majorCount >= when.majorCountGte)
             \/ (when.minorCountGte # NoTime /\ minorCount >= when.minorCountGte)
          THEN Head(outcomeRules).outcome
          ELSE determineOutcome(Tail(outcomeRules), majorCount, minorCount)

\* extractRulesetQuestionKeys: questionKeysAny of every rule, plus ignoreQuestionKeys
extractRulesetQuestionKeys(rulesDoc) ==
  UNION {rulesDoc.rules[i].questionKeysAny : i \in 1..Len(rulesDoc.rules)}
    \cup rulesDoc.ignoreQuestionKeys

\* the eligibility loop of scoreReport and scoreReportDryRun
IsScoreEligible(rulesDoc, answerMap) ==
  (DOMAIN answerMap) \cap extractRulesetQuestionKeys(rulesDoc) # {}

\* ---------------------------------------------------- ruleset resolution

\* detectRulesetNameFromText on the hint texts the model uses
detectRulesetNameFromText(value) ==
  CASE value = "Solar PV" -> "PV"
    [] value = "Heat Pump" -> "HeatPump"
    [] OTHER -> Null

RulesetNames == {"PV", "HeatPump"}

\* finalizeRuleset with getRulesetVersion over the default map
finalizeRuleset(ruleSetName) ==
  [ruleSetName |-> ruleSetName, ruleSetVersion |-> DEFAULT_RULESET_MAP[ruleSetName]]

\* countRulesetHits
countRulesetHits(questionKeys, rulesDoc) ==
  Cardinality(questionKeys \cap extractRulesetQuestionKeys(rulesDoc))

\* an inference that gives a tie of hits to PV
inferRulesetTieToPV(questionKeys, files) ==
  IF questionKeys = {} THEN Null
  ELSE IF ~files.PV.valid \/ ~files.HeatPump.valid THEN "throw"
  ELSE LET pvHits == countRulesetHits(questionKeys, files.PV)
           hpHits == countRulesetHits(questionKeys, files.HeatPump)
       IN IF pvHits = 0 /\ hpHits = 0 THEN Null
          ELSE IF pvHits >= hpHits THEN "PV" ELSE "HeatPump"

\* inferRulesetFromQuestionKeys: "throw" when a rule file cannot be loaded
inferRulesetFromQuestionKeys(questionKeys, files) ==
  IF questionKeys = {} THEN Null
  ELSE IF ~files.PV.valid \/ ~files.HeatPump.valid THEN "throw"
  ELSE LET pvHits == countRulesetHits(questionKeys, files.PV)
           hpHits == countRulesetHits(questionKeys, files.HeatPump)
       IN IF pvHits = 0 /\ hpHits = 0 THEN Null
          ELSE IF pvHits = hpHits THEN Null
          ELSE IF pvHits > hpHits THEN "PV" ELSE "HeatPump"

\* the first hint among the rows of a details payload that names a rule set
RECURSIVE DetectInRows(_)
DetectInRows(rows) ==
  IF rows = <<>> THEN Null
  ELSE IF detectRulesetNameFromText(Head(rows).hint) # Null
       THEN detectRulesetNameFromText(Head(rows).hint)
       ELSE DetectInRows(Tail(rows))

\* a resolution that falls back to PV
resolveRulesetDefaultPV(itemHint, rows, answerKeys, files) ==
  [kind |-> "ok", info |-> finalizeRuleset("PV")]

\* resolveRuleset: report context, then payload rows, then question-key overlap.
\* rows = <<>> also stands for a null payload; answerKeys for the {answerKeys} payload.
resolveRuleset(itemHint, rows, answerKeys, files) ==
  IF detectRulesetNameFromText(itemHint) # Null
  THEN [kind |-> "ok", info |-> finalizeRuleset(detectRulesetNameFromText(itemHint))]
  ELSE IF DetectInRows(rows) # Null
  THEN [kind |-> "ok", info |-> finalizeRuleset(DetectInRows(rows))]
  ELSE LET keys == ({Trim(rows[i].QUESTION_ID) : i \in 1..Len(rows)} \ {Null, ""})
                   \cup answerKeys
           inferred == inferRulesetFromQuestionKeys(keys, files)
       IN IF inferred = "throw" THEN [kind |-> "throw"]
          ELSE IF inferred = Null THEN [kind |-> "none"]
          ELSE [kind |-> "ok", info |-> finalizeRuleset(inferred)]

\* --------------------------------------------------------------- state

ZeroCounts ==
  [fetched |-> 0, eligible |-> 0, skipped |-> 0, selected |-> 0,
   ingested |-> 0, ingestAlreadyProcessed |-> 0, ingestFailedCount |-> 0,
   detailsProcessed |-> 0, detailsAlreadyProcessed |-> 0, answersInsertedCount |-> 0,
   certUpdatedCount |-> 0, markedProcessedCount |-> 0, detailsFailedCount |-> 0,
   scoreProcessed |-> 0, scoreAlreadyProcessed |-> 0, skippedNotEligible |-> 0,
   findingsInsertedCount |-> 0, majorCountTotal |-> 0, minorCountTotal |-> 0,
   scoreFailedCount |-> 0, emailOutboxInserted |-> 0,
   emailOutboxSkippedAlreadyExists |-> 0, emailOutboxMissingRecipient |-> 0]

\* counts.x += n for every field x of inc
AddCounts(c, inc) ==
  [f \in DOMAIN c |-> c[f] + (IF f \in DOMAIN inc THEN inc[f] ELSE 0)]

DefaultConfig ==
  [batchSize |-> MaxItems, startOverride |-> NoTime, endOverride |-> NoTime,
   dryRun |-> FALSE, materialiseEmail |-> FALSE, materialiseScope |-> "all"]

IdleRun ==
  [pc |-> "idle", cfg |-> DefaultConfig, watermark |-> Epoch, watermarkExists |-> FALSE,
   summary |-> <<>>, selected |-> <<>>, idx |-> 1, maxCompletedAtUtc |-> NoTime,
   failedReportIds |-> {}, status |-> "Succeeded", summaryCall |-> NoCall,
   exitCode |-> Null, updateThrew |-> Null, ingestTx |-> <<>>]

NoItem == [reportId |-> Null, completedAtUtc |-> NoTime, certificationNumber |-> Null,
           hint |-> Null]

\* a worker between two reports / after its loop has ended
ExitedWorker ==
  [pc |-> "exit", report |-> NoItem, rows |-> <<>>, hasMap |-> FALSE,
   answerMap |-> <<>>, ruleset |-> Null, detailsCall |-> NoCall, threw |-> Null,
   tx |-> <<>>]

\* processReport entered for one report
StartedWorker(item) ==
  [pc |-> "details", report |-> item, rows |-> <<>>, hasMap |-> FALSE,
   answerMap |-> <<>>, ruleset |-> Null, detailsCall |-> NoCall, threw |-> Null,
   tx |-> <<>>]

Alive(r) == run[r].pc \in {"workers", "failing"}

\* a ledger key that leaves the version out
processedKeyUnversioned(reportId, rulesetName, rulesetVersion) ==
  <<reportId, rulesetName, Null>>

\* the ledger key of a scoring transaction: `${reportId}|${rulesetName}|${rulesetVersion}`
processedKey(reportId, rulesetName, rulesetVersion) ==
  <<reportId, rulesetName, rulesetVersion>>

\* the reportId, ruleSetName and ruleSetVersion parameters of the scoring statements
ScoreKeyOf(me) == <<me.report.reportId, me.ruleset, DEFAULT_RULESET_MAP[me.ruleset]>>

\* the ledger key scoreReport builds from them
LedgerKeyOf(me) ==
  processedKey(me.report.reportId, me.ruleset, DEFAULT_RULESET_MAP[me.ruleset])

\* ----------------------------------------------------------------- main

\* main(): insertJobRun (unless dry run), getWatermark
RunStart(r, cfg) ==
  /\ run[r].pc = "idle"
  /\ \A q \in Runs : q < r => run[q].pc # "idle"
  /\ run' = [run EXCEPT ![r] =
               [@ EXCEPT !.pc = "fetch", !.cfg = cfg,
                         !.watermark = getWatermark(JobWatermark).watermark,
                         !.watermarkExists = getWatermark(JobWatermark).exists]]
  /\ JobRunHistory' = IF cfg.dryRun THEN JobRunHistory
                      ELSE insertJobRun(JobRunHistory, r, "Running")
  /\ UNCHANGED <<GoAuditsEmailOutbox, JobWatermark, ProcessedItems, GoAuditsReports, GoAuditsReportAnswers,
                 GoAuditsFindings, GoAuditsScores, envVars, counts, queue, worker,
                 faults, changes>>

\* main(): collectAudits, the eligibility filter, the sort and the batch selection;
\* an empty batch ends the run Succeeded, a failed fetch ends it Failed (the result
\* of the call, the items, the eligible list and the batch are each bound once).
\* updateJobRun may fail in the store: in the try block the error goes to main()'s
\* catch, in the catch block it is swallowed
FetchSummary(r) ==
  /\ run[r].pc = "fetch"
  /\ \E script \in ScriptsNow :
     \E call \in {fetchPage(script)} :
     \E items \in {IF call.array THEN remoteSummary ELSE <<>>} :
     \E eligible \in {SortItems(EligibleOf(items, run[r].cfg, run[r].watermark))} :
     \E selected \in {SelectBatch(eligible, run[r].cfg.batchSize)} :
     \E left \in {IF script = OkScript THEN faults ELSE faults - 1} :
     \E update \in {"ok"} \cup
                    (IF /\ left > 0 /\ ~run[r].cfg.dryRun
                        /\ (call.thrown \/ selected = <<>>)
                     THEN {"sqlError"} ELSE {}) :
       LET outcome == IF call.thrown THEN "error" ELSE "ok"
           finished == outcome = "error" \/ selected = <<>>
           caught == outcome = "ok" /\ update = "sqlError"
           status == IF outcome = "error" \/ caught THEN "Failed" ELSE "Succeeded"
       IN /\ faults' = IF update = "sqlError" THEN left - 1 ELSE left
          /\ run' = [run EXCEPT ![r] =
                       [@ EXCEPT !.pc = IF caught THEN "failing"
                                        ELSE IF finished THEN "done" ELSE "ingest",
                                 !.summaryCall = call,
                                 !.exitCode = IF ~finished \/ caught THEN Null
                                              ELSE IF outcome = "error" THEN "1" ELSE "0",
                                 !.summary = IF outcome = "ok" THEN items ELSE <<>>,
                                 !.selected = IF outcome = "ok" THEN selected ELSE <<>>,
                                 !.status = status,
                                 !.updateThrew = IF update = "ok" THEN Null
                                                 ELSE IF caught THEN "try" ELSE "catch"]]
          /\ counts' = IF outcome = "error" THEN counts
                       ELSE [counts EXCEPT ![r] =
                               AddCounts(@, [fetched |-> Len(items),
                                             eligible |-> Len(eligible),
                                             skipped |-> Len(items) - Len(eligible),
                                             selected |-> Len(selected)])]
          /\ JobRunHistory' = IF finished /\ ~run[r].cfg.dryRun /\ update = "ok"
                              THEN updateJobRun(JobRunHistory, r, status)
                              ELSE JobRunHistory
  /\ UNCHANGED <<GoAuditsEmailOutbox, JobWatermark, ProcessedItems, GoAuditsReports, GoAuditsReportAnswers,
                 GoAuditsFindings, GoAuditsScores, envVars, queue, worker, changes>>

\* the elements of a sequence
Range(s) == {s[i] : i \in DOMAIN s}

\* the statements of an ingest transaction that meets no error, in order
IngestStatements(ledgerDup) ==
  IF ledgerDup THEN <<"insertLedger", "rollback">>
  ELSE <<"insertLedger", "insertReport", "commit">>

\* an error handler that takes back what the transaction counted: no statement
\* of a failed transaction counts as done
StatementsDoneNone(statements, failAt) ==
  IF failAt = 0 THEN statements ELSE <<>>

\* the statements of a transaction that succeed before statement failAt fails
\* with a SQL error (all of them when failAt is 0)
StatementsDone(statements, failAt) ==
  IF failAt = 0 THEN statements ELSE SubSeq(statements, 1, failAt - 1)

\* the statements issued in a transaction: all of them when none fails;
\* otherwise those up to the failing one, and the rollback of the catch block
Issued(statements, failAt) ==
  IF failAt = 0 THEN statements ELSE SubSeq(statements, 1, failAt) \o <<"rollback">>

\* where a SQL error may strike a transaction: at any of its statements
FailurePoints(statements, outcome) ==
  IF outcome = "sqlError" THEN 1..Len(statements) ELSE {0}

\* ingestReports: one iteration of the loop, one transaction
IngestItem(r) ==
  /\ run[r].pc = "ingest"
  /\ run[r].idx <= Len(run[r].selected)
  /\ \E outcome \in {"ok"} \cup (IF faults > 0 /\ ~run[r].cfg.dryRun THEN {"sqlError"} ELSE {}) :
     \E failAt \in FailurePoints(
                      IngestStatements(LedgerDuplicate(ProcessedItems, INGESTION_JOB_NAME,
                                         run[r].selected[run[r].idx].reportId)),
                      outcome) :
       LET item == run[r].selected[run[r].idx]
           max == run[r].maxCompletedAtUtc
           newMax == IF max = NoTime \/ item.completedAtUtc > max
                     THEN item.completedAtUtc ELSE max
           ledgerDup == IF run[r].cfg.dryRun
                        THEN isProcessed(ProcessedItems, INGESTION_JOB_NAME, item.reportId)
                        ELSE LedgerDuplicate(ProcessedItems, INGESTION_JOB_NAME, item.reportId)
           reportDup == ReportDuplicate(GoAuditsReports, item.reportId)
           commits == outcome = "ok" /\ ~run[r].cfg.dryRun /\ ~ledgerDup
       IN /\ faults' = IF outcome = "sqlError" THEN faults - 1 ELSE faults
          /\ ProcessedItems' =
               IF commits
               THEN LedgerInsert(ProcessedItems, INGESTION_JOB_NAME, item.reportId, r)
               ELSE ProcessedItems
          /\ GoAuditsReports' =
               IF commits /\ ~reportDup THEN ReportInsert(GoAuditsReports, item, r)
               ELSE GoAuditsReports
          /\ counts' = [counts EXCEPT ![r] =
               AddCounts(@,
                 IF outcome = "sqlError"
                 THEN [ingestFailedCount |-> 1,
                       ingested |->
                         IF "insertReport" \in Range(StatementsDone(IngestStatements(ledgerDup), failAt))
                            /\ ~reportDup THEN 1 ELSE 0,
                       ingestAlreadyProcessed |->
                         IF "insertReport" \in Range(StatementsDone(IngestStatements(ledgerDup), failAt))
                            /\ reportDup THEN 1 ELSE 0]
                 ELSE IF ledgerDup \/ (~run[r].cfg.dryRun /\ reportDup)
                      THEN [ingestAlreadyProcessed |-> 1]
                      ELSE [ingested |-> 1])]
          /\ run' = [run EXCEPT ![r] =
               [@ EXCEPT !.idx = @ + 1,
                         !.maxCompletedAtUtc = newMax,
                         !.ingestTx = IF run[r].cfg.dryRun THEN <<>>
                                      ELSE Issued(IngestStatements(ledgerDup), failAt),
                         !.failedReportIds =
                            IF outcome = "sqlError" THEN @ \cup {item.reportId} ELSE @,
                         !.pc = IF run[r].idx = Len(run[r].selected)
                                THEN "watermark" ELSE "ingest"]]
  /\ UNCHANGED <<GoAuditsEmailOutbox, JobWatermark, JobRunHistory, GoAuditsReportAnswers, GoAuditsFindings,
                 GoAuditsScores, envVars, queue, worker, changes>>

\* selected.filter(item => !failedReportIds.has(item.reportId))
RECURSIVE QueueOf(_, _)
QueueOf(selected, failedReportIds) ==
  IF selected = <<>> THEN <<>>
  ELSE (IF Head(selected).reportId \in failedReportIds THEN <<>> ELSE <<Head(selected)>>)
         \o QueueOf(Tail(selected), failedReportIds)

\* a watermark taken from the batch alone
NextWatermarkOfBatch(watermark, maxCompletedAtUtc) ==
  IF maxCompletedAtUtc # NoTime THEN maxCompletedAtUtc ELSE watermark

\* the watermark the run writes: the maximum of the one it read and the batch's
NextWatermark(watermark, maxCompletedAtUtc) ==
  IF maxCompletedAtUtc # NoTime /\ maxCompletedAtUtc > watermark
  THEN maxCompletedAtUtc ELSE watermark

\* a guard that does not look at the failed ingest transactions
AdvancesWatermarkDespiteFailures(r) ==
  /\ ~run[r].cfg.dryRun
  /\ (run[r].maxCompletedAtUtc # NoTime \/ ~run[r].watermarkExists)

\* a guard that does not look at the dry-run switch
AdvancesWatermarkInDryRun(r) ==
  /\ (run[r].maxCompletedAtUtc # NoTime \/ ~run[r].watermarkExists)
  /\ counts[r].ingestFailedCount = 0

\* the guard of the updateWatermark call in main()
AdvancesWatermark(r) ==
  /\ ~run[r].cfg.dryRun
  /\ (run[r].maxCompletedAtUtc # NoTime \/ ~run[r].watermarkExists)
  /\ counts[r].ingestFailedCount = 0

\* main() after ingestReports: updateWatermark, then the three workers take
\* their first reports from the queue
AdvanceWatermark(r) ==
  /\ run[r].pc = "watermark"
  /\ JobWatermark' =
       IF AdvancesWatermark(r)
       THEN updateWatermark(JobWatermark,
                            NextWatermark(run[r].watermark, run[r].maxCompletedAtUtc))
       ELSE JobWatermark
  /\ LET q == QueueOf(run[r].selected, run[r].failedReportIds)
     IN /\ worker' = [worker EXCEPT ![r] =
                        [w \in Workers |-> IF w <= Len(q) THEN StartedWorker(q[w])
                                           ELSE ExitedWorker]]
        /\ queue' = [queue EXCEPT ![r] =
                       IF Len(q) > DETAILS_CONCURRENCY
                       THEN SubSeq(q, DETAILS_CONCURRENCY + 1, Len(q)) ELSE <<>>]
  /\ run' = [run EXCEPT ![r] = [@ EXCEPT !.pc = "workers"]]
  /\ UNCHANGED <<GoAuditsEmailOutbox, JobRunHistory, ProcessedItems, GoAuditsReports, GoAuditsReportAnswers,
                 GoAuditsFindings, GoAuditsScores, envVars, counts, faults, changes>>

\* dbo.Installer, keyed by ID: the company and its e-mail address, if it has one
Installer ==
  {[ID |-> "I1", Email |-> "one@example.org"], [ID |-> "I2", Email |-> Null]}

\* COLLATE Latin1_General_CI_AS: the form under which certificate numbers compare
CollateCI(cert) == IF cert = "mcs-123" THEN "MCS-123" ELSE cert

\* the Score rows the materialiser selects from: those of the given report ids in
\* batch scope, all of them otherwise
ScopedScores(scores, useBatchIds, reportIds) ==
  {s \in scores : useBatchIds => s.reportId \in reportIds}

\* o is an outbox row of the key of Score row s
SameOutboxKey(o, s) ==
  /\ o.reportId = s.reportId
  /\ o.ruleSetName = s.ruleSetName
  /\ o.ruleSetVersion = s.ruleSetVersion

\* the rows of the Src expression: Scores JOIN Reports LEFT JOIN Installation
\* LEFT JOIN Installer, WHERE NOT EXISTS an outbox row of the same key.  A row is
\* <<score, report, installation, installer>>, the last two as sets of one row,
\* empty for a side of a left join that found nothing.  TOP (@batchSize) with its default of 2000 cuts
\* nothing off the few rows there are here
MaterialiseSrc(outbox, scores, reports, installation, useBatchIds, reportIds) ==
  {x \in
     UNION {UNION {LET insts == {i \in installation :
                                   /\ rep.certificationNumber # Null
                                   /\ CollateCI(i.certificateNumber)
                                        = CollateCI(rep.certificationNumber)}
                   IN  IF insts = {} THEN {<<s, rep, {}, {}>>}
                       ELSE UNION {LET inss == {n \in Installer : n.ID = i.installerId}
                                   IN  IF inss = {} THEN {<<s, rep, {i}, {}>>}
                                       ELSE {<<s, rep, {i}, {n}>> : n \in inss}
                                   : i \in insts}
                   : rep \in {y \in reports : y.reportId = s.reportId}}
            : s \in ScopedScores(scores, useBatchIds, reportIds)} :
     ~\E o \in BagToSet(outbox) : SameOutboxKey(o, x[1])}

\* the outbox row inserted for a row of Src
OutboxRow(x) ==
  [reportId |-> x[1].reportId, ruleSetName |-> x[1].ruleSetName,
   ruleSetVersion |-> x[1].ruleSetVersion,
   certificateNumber |-> x[2].certificationNumber,
   recipientEmail |-> IF x[4] = {} THEN Null ELSE (CHOOSE n \in x[4] : TRUE).Email,
   status |-> "Pending"]

\* materialiseEmailOutbox: the outbox after INSERT ... SELECT ... FROM Src, one
\* new Pending row for every row of Src, and the counts it returns.
\* @SkippedAlreadyExists is counted in batch scope only, before the insert;
\* @MissingRecipient is declared 0 and never assigned
materialiseEmailOutbox(outbox, scores, reports, installation, useBatchIds, reportIds) ==
  LET src == MaterialiseSrc(outbox, scores, reports, installation, useBatchIds, reportIds)
      rows == {OutboxRow(x) : x \in src}
  IN  [outbox |-> outbox (+) [row \in rows |->
                                Cardinality({x \in src : OutboxRow(x) = row})],
       inserted |-> Cardinality(src),
       skippedAlreadyExists |->
         IF useBatchIds
         THEN Cardinality({s \in ScopedScores(scores, TRUE, reportIds) :
                             \E o \in BagToSet(outbox) : SameOutboxKey(o, s)})
         ELSE 0,
       missingRecipient |-> 0]

\* batchReportIds: the report ids of the queue the workers were given
batchReportIds(r) ==
  {run[r].selected[i].reportId :
     i \in {j \in DOMAIN run[r].selected :
              run[r].selected[j].reportId \notin run[r].failedReportIds}}

\* main() after Promise.all(workers): the outbox materialisation when it is
\* switched on (skipped in dry-run and for an empty batch in batch scope),
\* updateJobRun(Succeeded), exit 0; an updateJobRun that fails in the store
\* throws into main()'s catch
Finalise(r) ==
  /\ run[r].pc = "workers"
  /\ \A w \in Workers : worker[r][w].pc = "exit"
  /\ \E update \in {"ok"} \cup
                   (IF faults > 0 /\ ~run[r].cfg.dryRun THEN {"sqlError"} ELSE {}) :
       /\ run' = [run EXCEPT ![r] =
                    IF update = "ok" THEN [@ EXCEPT !.pc = "done", !.exitCode = "0"]
                    ELSE [@ EXCEPT !.pc = "failing", !.status = "Failed",
                                   !.updateThrew = "try"]]
       /\ faults' = IF update = "ok" THEN faults ELSE faults - 1
       /\ JobRunHistory' = IF run[r].cfg.dryRun \/ update = "sqlError" THEN JobRunHistory
                           ELSE updateJobRun(JobRunHistory, r, "Succeeded")
  /\ IF /\ run[r].cfg.materialiseEmail
        /\ ~run[r].cfg.dryRun
        /\ ~(run[r].cfg.materialiseScope = "batch" /\ batchReportIds(r) = {})
     THEN \E result \in {materialiseEmailOutbox(
                           GoAuditsEmailOutbox, GoAuditsScores, GoAuditsReports,
                           Installation, run[r].cfg.materialiseScope = "batch",
                           batchReportIds(r))} :
            /\ GoAuditsEmailOutbox' = result.outbox
            /\ counts' = [counts EXCEPT ![r] =
                 AddCounts(@, [emailOutboxInserted |-> result.inserted,
                               emailOutboxSkippedAlreadyExists |->
                                 result.skippedAlreadyExists,
                               emailOutboxMissingRecipient |->
                                 result.missingRecipient])]
     ELSE UNCHANGED <<GoAuditsEmailOutbox, counts>>
  /\ UNCHANGED <<JobWatermark, ProcessedItems, GoAuditsReports, GoAuditsReportAnswers,
                 GoAuditsFindings, GoAuditsScores, envVars, queue, worker, changes>>

\* main()'s catch after a worker or a statement of main() has thrown:
\* updateJobRun(Failed) as best effort (its own failure is swallowed), exit 1;
\* the process ends with its other workers wherever they are, and the
\* transactions they have open are rolled back by the closing connection
FailRun(r) ==
  /\ run[r].pc = "failing"
  /\ \E update \in {"ok"} \cup
                   (IF faults > 0 /\ ~run[r].cfg.dryRun THEN {"sqlError"} ELSE {}) :
       /\ run' = [run EXCEPT ![r] =
                    [@ EXCEPT !.pc = "done", !.status = "Failed", !.exitCode = "1",
                              !.updateThrew = IF update = "ok" THEN @ ELSE "catch"]]
       /\ faults' = IF update = "ok" THEN faults ELSE faults - 1
       /\ JobRunHistory' = IF run[r].cfg.dryRun \/ update = "sqlError" THEN JobRunHistory
                           ELSE updateJobRun(JobRunHistory, r, "Failed")
  /\ worker' = [worker EXCEPT ![r] =
                  [w \in Workers |-> IF worker[r][w].pc = "exit" THEN worker[r][w]
                                     ELSE ExitedWorker]]
  /\ queue' = [queue EXCEPT ![r] = <<>>]
  /\ UNCHANGED <<GoAuditsEmailOutbox, JobWatermark, ProcessedItems, GoAuditsReports, GoAuditsReportAnswers,
                 GoAuditsFindings, GoAuditsScores, envVars, counts, changes>>

\* -------------------------------------------------------------- workers

\* a worker loop that reads the head of the queue without removing it
TakeNextKeepsQueue(r, w) ==
  /\ worker' = [worker EXCEPT ![r][w] =
                  IF queue[r] # <<>> THEN StartedWorker(Head(queue[r])) ELSE ExitedWorker]
  /\ queue' = queue

\* the worker loop: while (queue.length) { report = queue.shift(); ... }
\* taken in the same turn in which processReport returns
TakeNext(r, w) ==
  /\ worker' = [worker EXCEPT ![r][w] =
                  IF queue[r] # <<>> THEN StartedWorker(Head(queue[r])) ELSE ExitedWorker]
  /\ queue' = [queue EXCEPT ![r] = IF @ # <<>> THEN Tail(@) ELSE @]

\* getCurrentCertificationNumber
getCurrentCertificationNumber(tbl, reportId) ==
  IF \E x \in tbl : x.reportId = reportId
  THEN (CHOOSE x \in tbl : x.reportId = reportId).certificationNumber
  ELSE Null

IsEmptyCert(c) == c = Null \/ Trim(c) = ""

\* an UPDATE without the test on the stored value
updateReportCertAlways(tbl, reportId, cert) ==
  {IF x.reportId = reportId THEN [x EXCEPT !.certificationNumber = cert] ELSE x : x \in tbl}

\* UPDATE GoAuditsReports SET CertificationNumber=@cert WHERE ... IS NULL OR = ''
updateReportCertIfEmpty(tbl, reportId, cert) ==
  {IF x.reportId = reportId /\ (x.certificationNumber = Null \/ x.certificationNumber = "")
   THEN [x EXCEPT !.certificationNumber = cert] ELSE x : x \in tbl}

CertRowsAffected(tbl, reportId) ==
  \E x \in tbl : /\ x.reportId = reportId
                 /\ (x.certificationNumber = Null \/ x.certificationNumber = "")

\* a table without primary key: no insert is a duplicate
AnswerDuplicateNever(tbl, reportId, questionKey) == FALSE

\* PK (GoAuditsReportId, QuestionKey) of GoAuditsReportAnswers: a duplicate is ignored
AnswerDuplicate(tbl, reportId, questionKey) ==
  \E a \in tbl : a.reportId = reportId /\ a.questionKey = questionKey

NewAnswers(tbl, reportId, answers) ==
  {[reportId |-> reportId, questionKey |-> answers[i].questionKey,
    answerValue |-> answers[i].answerValue] :
     i \in {j \in 1..Len(answers) : ~AnswerDuplicate(tbl, reportId, answers[j].questionKey)}}

\* an enrichment transaction that leaves the ledger insert out
markEnrichedSkipped(tbl, answersExist, reportId, runId) == tbl

\* processDetails: if (answersExist) INSERT INTO ProcessedItems, a duplicate ignored
markEnriched(tbl, answersExist, reportId, runId) ==
  IF answersExist /\ ~LedgerDuplicate(tbl, ENRICHMENT_JOB_NAME, reportId)
  THEN LedgerInsert(tbl, ENRICHMENT_JOB_NAME, reportId, runId)
  ELSE tbl

\* processDetails up to the transaction: isProcessed, fetchWithRetry, the
\* RecordType=Detail test, and the whole dry-run branch
DetailsFetch(r, w) ==
  /\ Alive(r)
  /\ worker[r][w].pc = "details"
  /\ LET reportId == worker[r][w].report.reportId
         already == isProcessed(ProcessedItems, ENRICHMENT_JOB_NAME, reportId)
     IN \E script \in IF already THEN {OkScript} ELSE ScriptsNow :
          LET call == IF already THEN NoCall ELSE fetchWithRetry(script)
              outcome == IF ~call.thrown THEN "ok"
                         ELSE IF call.fatal THEN "fatal" ELSE "error"
              rows == remoteDetails[reportId]
              noDetail == rows = <<>> \/ ~hasDetail(rows)
              answers == extractAnswers(rows, {})
              cert == extractCertificate(rows)
              currentCert == getCurrentCertificationNumber(GoAuditsReports, reportId)
          IN /\ faults' = IF script = OkScript THEN faults ELSE faults - 1
             /\ IF already
                THEN /\ counts' = [counts EXCEPT ![r] = AddCounts(@, [detailsAlreadyProcessed |-> 1])]
                     /\ worker' = [worker EXCEPT ![r][w] = [@ EXCEPT !.pc = "resolve"]]
                     /\ UNCHANGED run
                ELSE IF outcome = "fatal"
                THEN /\ worker' = [worker EXCEPT ![r][w] =
                                     [ExitedWorker EXCEPT !.detailsCall = call,
                                                          !.threw = "fatal"]]
                     /\ run' = [run EXCEPT ![r] = [@ EXCEPT !.pc = "failing"]]
                     /\ UNCHANGED counts
                ELSE IF outcome = "error"
                THEN /\ counts' = [counts EXCEPT ![r] = AddCounts(@, [detailsFailedCount |-> 1])]
                     /\ worker' = [worker EXCEPT ![r][w] =
                                     [@ EXCEPT !.pc = "resolve", !.detailsCall = call]]
                     /\ UNCHANGED run
                ELSE IF noDetail
                THEN /\ counts' = [counts EXCEPT ![r] = AddCounts(@, [detailsFailedCount |-> 1])]
                     /\ worker' = [worker EXCEPT ![r][w] =
                                     [@ EXCEPT !.pc = "resolve", !.rows = rows,
                                               !.detailsCall = call]]
                     /\ UNCHANGED run
                ELSE IF run[r].cfg.dryRun
                THEN /\ counts' = [counts EXCEPT ![r] =
                          AddCounts(@,
                            [certUpdatedCount |->
                               IF cert # Null /\ IsEmptyCert(currentCert) THEN 1 ELSE 0,
                             answersInsertedCount |-> Len(answers),
                             markedProcessedCount |-> IF Len(answers) > 0 THEN 1 ELSE 0,
                             detailsProcessed |-> 1])]
                     /\ worker' = [worker EXCEPT ![r][w] =
                                     [@ EXCEPT !.pc = "resolve", !.rows = rows,
                                               !.hasMap = TRUE, !.detailsCall = call,
                                               !.answerMap = buildAnswerMap(answers)]]
                     /\ UNCHANGED run
                ELSE /\ worker' = [worker EXCEPT ![r][w] =
                                     [@ EXCEPT !.pc = "enrich", !.rows = rows,
                                               !.detailsCall = call]]
                     /\ UNCHANGED <<run, counts>>
  /\ UNCHANGED <<dbVars, envVars, queue, changes>>

\* an enrichment transaction that begins with its ledger insert
EnrichStatementsLedgerFirst(cert, answers, answersExist) ==
  <<"insertLedger">>
    \o (IF cert # Null THEN <<"updateCert">> ELSE <<>>)
    \o [i \in 1..Len(answers) |-> "insertAnswer"]
    \o <<"check", "commit">>

\* the statements of an enrichment transaction that meets no error, in order:
\* the certificate update when the response names one, one insert per answer,
\* the check query, the ledger insert when the report has answers, the commit
EnrichStatements(cert, answers, answersExist) ==
  (IF cert # Null THEN <<"updateCert">> ELSE <<>>)
    \o [i \in 1..Len(answers) |-> "insertAnswer"]
    \o <<"check">>
    \o (IF answersExist THEN <<"insertLedger">> ELSE <<>>)
    \o <<"commit">>

\* processDetails: the enrichment transaction (certificate, answers, ledger), or
\* its rollback on a SQL error
EnrichTx(r, w) ==
  /\ Alive(r)
  /\ worker[r][w].pc = "enrich"
  /\ \E outcome \in {"ok"} \cup (IF faults > 0 THEN {"sqlError"} ELSE {}) :
     \E statements \in
          {LET rid == worker[r][w].report.reportId
               ans == extractAnswers(worker[r][w].rows, {})
           IN  EnrichStatements(
                 extractCertificate(worker[r][w].rows), ans,
                 \E a \in GoAuditsReportAnswers \cup NewAnswers(GoAuditsReportAnswers, rid, ans) :
                   a.reportId = rid)} :
     \E failAt \in FailurePoints(statements, outcome) :
       LET reportId == worker[r][w].report.reportId
           rows == worker[r][w].rows
           cert == extractCertificate(rows)
           answers == extractAnswers(rows, {})
           added == NewAnswers(GoAuditsReportAnswers, reportId, answers)
           answersAfter == GoAuditsReportAnswers \cup added
           answersExist == \E a \in answersAfter : a.reportId = reportId
           ledgerDup == LedgerDuplicate(ProcessedItems, ENRICHMENT_JOB_NAME, reportId)
           commits == outcome = "ok"
           done == StatementsDone(statements, failAt)
           inserts == Cardinality({i \in DOMAIN done : done[i] = "insertAnswer"})
           counted ==
             [certUpdatedCount |->
                IF "updateCert" \in Range(done) /\ CertRowsAffected(GoAuditsReports, reportId)
                THEN 1 ELSE 0,
              answersInsertedCount |->
                Cardinality(NewAnswers(GoAuditsReportAnswers, reportId,
                                       SubSeq(answers, 1, inserts))),
              markedProcessedCount |->
                IF "insertLedger" \in Range(done) /\ ~ledgerDup THEN 1 ELSE 0]
       IN /\ faults' = IF commits THEN faults ELSE faults - 1
          /\ GoAuditsReports' =
               IF commits /\ cert # Null
               THEN updateReportCertIfEmpty(GoAuditsReports, reportId, cert)
               ELSE GoAuditsReports
          /\ GoAuditsReportAnswers' = IF commits THEN answersAfter ELSE GoAuditsReportAnswers
          /\ ProcessedItems' =
               IF commits THEN markEnriched(ProcessedItems, answersExist, reportId, r)
               ELSE ProcessedItems
          /\ counts' = [counts EXCEPT ![r] =
               AddCounts(AddCounts(@, counted),
                         IF commits THEN [detailsProcessed |-> 1]
                         ELSE [detailsFailedCount |-> 1])]
          /\ worker' = [worker EXCEPT ![r][w] =
               [@ EXCEPT !.pc = "resolve",
                         !.tx = Issued(statements, failAt)]]
  /\ UNCHANGED <<GoAuditsEmailOutbox, JobWatermark, JobRunHistory, GoAuditsFindings, GoAuditsScores,
                 envVars, run, queue, changes>>

\* processReport between processDetails and scoring: loadReportRow, resolveRuleset
\* (twice when the payload does not decide), loadAnswers, the two skip tests and,
\* outside dry-run, getRulesDoc.  loadReportRow and loadAnswers are awaited
\* outside every try block: a SQL error in them leaves processReport and the
\* worker as a rejection, which main() catches.
ResolveAndLoad(r, w) ==
  /\ Alive(r)
  /\ worker[r][w].pc = "resolve"
  /\ \E outcome \in {"ok"} \cup (IF faults > 0 THEN {"sqlError"} ELSE {}) :
     LET me == worker[r][w]
         reportId == me.report.reportId
         stored == loadAnswers(GoAuditsReportAnswers, reportId)
         first == resolveRuleset(me.report.hint, me.rows, {}, rulesFiles)
         map1 == IF me.hasMap THEN me.answerMap ELSE stored
         second == IF first.kind = "none" /\ DOMAIN map1 # {}
                   THEN resolveRuleset(me.report.hint, <<>>, DOMAIN map1, rulesFiles)
                   ELSE first
         threw == first.kind = "throw" \/ second.kind = "throw"
         skipped == ~threw /\ (second.kind = "none" \/ DOMAIN map1 = {})
         loadFails == /\ ~threw /\ ~skipped /\ ~run[r].cfg.dryRun
                      /\ ~rulesFiles[second.info.ruleSetName].valid
     IN /\ faults' = IF outcome = "ok" THEN faults ELSE faults - 1
        /\ IF outcome = "sqlError"
           THEN /\ worker' = [worker EXCEPT ![r][w] =
                                [ExitedWorker EXCEPT !.threw = "sqlRead"]]
                /\ run' = [run EXCEPT ![r] = [@ EXCEPT !.pc = "failing"]]
                /\ UNCHANGED <<counts, queue>>
           ELSE IF threw \/ skipped \/ loadFails
           THEN /\ counts' = [counts EXCEPT ![r] =
                     AddCounts(@, IF skipped THEN [skippedNotEligible |-> 1]
                                  ELSE [scoreFailedCount |-> 1])]
                /\ TakeNext(r, w)
                /\ UNCHANGED run
           ELSE /\ worker' = [worker EXCEPT ![r][w] =
                     [@ EXCEPT !.pc = "score", !.hasMap = TRUE, !.answerMap = map1,
                               !.ruleset = second.info.ruleSetName]]
                /\ UNCHANGED <<counts, queue, run>>
  /\ UNCHANGED <<dbVars, envVars, changes>>

\* -------------------------------------------------------------- scoring

\* computeScoreValue
computeScoreValue(scoreValueConfig, outcome) ==
  IF scoreValueConfig.from = "fixed" THEN scoreValueConfig.fixedValue
  ELSE IF scoreValueConfig.from = "outcome" /\ scoreValueConfig.type \in {"text", "numeric"}
  THEN outcome
  ELSE Null

\* PK_GoAuditsFindings (GoAuditsReportId, RuleSetName, RuleSetVersion, QuestionKey)
FindingDuplicate(tbl, key, questionKey) ==
  \E x \in tbl : /\ <<x.reportId, x.ruleSetName, x.ruleSetVersion>> = key
                 /\ x.questionKey = questionKey

FindingRow(key, f) ==
  [reportId |-> key[1], ruleSetName |-> key[2], ruleSetVersion |-> key[3],
   questionKey |-> f.questionKey, severity |-> f.severity,
   majorNonCompliantText |-> f.majorNonCompliantText,
   minorNonCompliantText |-> f.minorNonCompliantText]

\* the UPDATE run on a duplicate finding key: COALESCE on both text columns
CoalesceFindingText(tbl, key, f) ==
  {IF <<x.reportId, x.ruleSetName, x.ruleSetVersion>> = key /\ x.questionKey = f.questionKey
   THEN [x EXCEPT !.majorNonCompliantText =
                     IF @ = Null THEN f.majorNonCompliantText ELSE @,
                  !.minorNonCompliantText =
                     IF @ = Null THEN f.minorNonCompliantText ELSE @]
   ELSE x : x \in tbl}

\* CK_GoAuditsFindings_Severity
SeverityAllowed(severity) == severity \in {"Major", "Minor"}

\* the insert loop of scoreReport over the findings: the table it leaves, how many
\* rows it inserted, and whether an insert failed on something else than a duplicate
RECURSIVE InsertFindings(_, _, _)
InsertFindings(tbl, key, findings) ==
  IF findings = <<>> THEN [tbl |-> tbl, inserted |-> 0, failed |-> FALSE]
  ELSE LET f == Head(findings)
       IN IF FindingDuplicate(tbl, key, f.questionKey)
          THEN InsertFindings(CoalesceFindingText(tbl, key, f), key, Tail(findings))
          ELSE IF ~SeverityAllowed(f.severity)
          THEN [tbl |-> tbl, inserted |-> 0, failed |-> TRUE]
          ELSE LET rest == InsertFindings(tbl \cup {FindingRow(key, f)}, key, Tail(findings))
               IN [rest EXCEPT !.inserted = @ + 1]

\* PK_GoAuditsScores: insert, or on a duplicate overwrite counts, value and outcome
upsertScore(tbl, key, majorCount, minorCount, scoreValue, outcome) ==
  {x \in tbl : <<x.reportId, x.ruleSetName, x.ruleSetVersion>> # key}
    \cup {[reportId |-> key[1], ruleSetName |-> key[2], ruleSetVersion |-> key[3],
           majorCount |-> majorCount, minorCount |-> minorCount,
           scoreValue |-> scoreValue, outcome |-> outcome]}

\* a ledger whose uncommitted rows do not make a second insert wait
OpenScoreKeysUnlocked(except) == {}

\* the scoring transactions that hold an uncommitted ledger row
OpenScoreKeys(except) ==
  {LedgerKeyOf(worker[q][v]) :
     <<q, v>> \in {x \in Runs \X Workers : x # except /\ worker[x[1]][x[2]].pc = "scoreTx"}}

\* the counters of one evaluation, as scoreReportDryRun adds them
DryRunScoreCounts(rulesDoc, answerMap) ==
  IF ~IsScoreEligible(rulesDoc, answerMap) THEN [skippedNotEligible |-> 1]
  ELSE LET ev == EvaluateRules(rulesDoc.rules, answerMap, rulesDoc.answerNormalization)
       IN [scoreProcessed |-> 1,
           findingsInsertedCount |-> Len(ev.findings),
           majorCountTotal |-> CountSeverity(ev.findings, "Major"),
           minorCountTotal |-> CountSeverity(ev.findings, "Minor")]

\* scoreReport: begin the transaction and insert the ledger row first.  The insert
\* waits while another open transaction holds the same key, and fails with a
\* duplicate key once that key is committed.  transaction.begin() is awaited
\* before the try block, so its failure leaves scoreReport as a rejection.
\* In dry-run: isProcessed (outside every try block), getRulesDoc and
\* scoreReportDryRun, whose evaluation error is not caught either.
ScoreBegin(r, w) ==
  /\ Alive(r)
  /\ worker[r][w].pc = "score"
  /\ LET me == worker[r][w]
         key == LedgerKeyOf(me)
         dup == isProcessed(ProcessedItems, SCORING_JOB_NAME, key)
         rulesDoc == rulesFiles[me.ruleset]
         dryThrows == /\ ~dup /\ rulesDoc.valid
                      /\ IsScoreEligible(rulesDoc, me.answerMap)
                      /\ EvaluateRules(rulesDoc.rules, me.answerMap,
                                       rulesDoc.answerNormalization).threw
         Throws(what) ==
           /\ worker' = [worker EXCEPT ![r][w] = [ExitedWorker EXCEPT !.threw = what]]
           /\ run' = [run EXCEPT ![r] = [@ EXCEPT !.pc = "failing"]]
           /\ UNCHANGED <<counts, queue>>
     IN IF run[r].cfg.dryRun
        THEN \E outcome \in {"ok"} \cup (IF faults > 0 THEN {"readError"} ELSE {}) :
               /\ faults' = IF outcome = "ok" THEN faults ELSE faults - 1
               /\ IF outcome = "readError" THEN Throws("sqlRead")
                  ELSE IF dryThrows THEN Throws("evaluation")
                  ELSE /\ counts' = [counts EXCEPT ![r] =
                            AddCounts(@,
                              IF dup THEN [scoreAlreadyProcessed |-> 1]
                              ELSE IF ~rulesDoc.valid THEN [scoreFailedCount |-> 1]
                              ELSE DryRunScoreCounts(rulesDoc, me.answerMap))]
                       /\ TakeNext(r, w)
                       /\ UNCHANGED run
        ELSE /\ key \notin OpenScoreKeys(<<r, w>>)
             /\ \E outcome \in {"ok"} \cup (IF faults > 0 THEN {"beginError"} ELSE {})
                                   \cup (IF faults > 0 /\ ~dup THEN {"sqlError"} ELSE {}) :
                  /\ faults' = IF outcome = "ok" THEN faults ELSE faults - 1
                  /\ IF outcome = "beginError" THEN Throws("begin")
                     ELSE IF dup \/ outcome = "sqlError"
                     THEN /\ counts' = [counts EXCEPT ![r] =
                               AddCounts(@, IF dup THEN [scoreAlreadyProcessed |-> 1]
                                            ELSE [scoreFailedCount |-> 1])]
                          /\ TakeNext(r, w)
                          /\ UNCHANGED run
                     ELSE /\ worker' = [worker EXCEPT ![r][w] =
                               [@ EXCEPT !.pc = "scoreTx", !.tx = <<"insertLedger">>]]
                          /\ UNCHANGED <<counts, queue, run>>
  /\ UNCHANGED <<dbVars, envVars, changes>>

\* scoreReport after the ledger insert: the eligibility test, the evaluation, the
\* finding inserts, the score upsert and the commit; or the rollback on an error
ScoreCommit(r, w) ==
  /\ Alive(r)
  /\ worker[r][w].pc = "scoreTx"
  /\ \E outcome \in {"ok"} \cup (IF faults > 0 THEN {"sqlError"} ELSE {}) :
       LET me == worker[r][w]
           key == ScoreKeyOf(me)
           rulesDoc == rulesFiles[me.ruleset]
           eligible == IsScoreEligible(rulesDoc, me.answerMap)
           ev == EvaluateRules(rulesDoc.rules, me.answerMap, rulesDoc.answerNormalization)
           majorCount == CountSeverity(ev.findings, "Major")
           minorCount == CountSeverity(ev.findings, "Minor")
           result == determineOutcome(rulesDoc.scoring.outcomeRules, majorCount, minorCount)
           ins == InsertFindings(GoAuditsFindings, key, ev.findings)
           rollsBack == outcome = "sqlError" \/ (eligible /\ (ev.threw \/ ins.failed))
           scores == ~rollsBack /\ eligible
       IN /\ faults' = IF outcome = "sqlError" THEN faults - 1 ELSE faults
          /\ ProcessedItems' =
               IF rollsBack THEN ProcessedItems
               ELSE LedgerInsert(ProcessedItems, SCORING_JOB_NAME, LedgerKeyOf(me), r)
          /\ GoAuditsFindings' = IF scores THEN ins.tbl ELSE GoAuditsFindings
          /\ GoAuditsScores' =
               IF scores
               THEN upsertScore(GoAuditsScores, key, majorCount, minorCount,
                                computeScoreValue(rulesDoc.scoring.scoreValue, result), result)
               ELSE GoAuditsScores
          /\ \E done \in (IF outcome = "sqlError" /\ eligible /\ ~ev.threw
                          THEN 0..ins.inserted ELSE {ins.inserted}) :
               counts' = [counts EXCEPT ![r] =
                 AddCounts(@,
                   IF ~eligible /\ ~rollsBack THEN [skippedNotEligible |-> 1]
                   ELSE IF ~eligible \/ ev.threw THEN [scoreFailedCount |-> 1]
                   ELSE IF rollsBack
                   THEN [scoreFailedCount |-> 1, findingsInsertedCount |-> done]
                   ELSE [scoreProcessed |-> 1, findingsInsertedCount |-> done,
                         majorCountTotal |-> majorCount, minorCountTotal |-> minorCount])]
          /\ TakeNext(r, w)
  /\ UNCHANGED <<GoAuditsEmailOutbox, JobWatermark, JobRunHistory, GoAuditsReports, GoAuditsReportAnswers,
                 envVars, run, changes>>

\* ---------------------------------------------------------- environment

SeqsUpTo(S, n) == UNION {[1..k -> S] : k \in 0..n}

\* a remote API whose failing calls are answered 401, or another non-2xx status
HardFailureScripts == {<<"r401">>, <<"rOther">>}

\* a remote API whose failing calls meet up to MaxScriptLen - 1 transient
\* failures (status 429 or a network error, in any mix) and then any response
\* at all, repeated from there on
FlakyScripts ==
  {prefix \o <<response>> :
     prefix \in SeqsUpTo({"r429", "network"}, MaxScriptLen - 1),
     response \in Responses} \ {OkScript}

\* summary records: a report id, a completion time, a template text
SummaryItems ==
  [reportId : {IdOrder[i] : i \in 1..MaxItems}, completedAt : Times, hint : {"Solar PV"}]

HeaderRow ==
  [RecordType |-> "Header", QUESTION_ID |-> Null, Question |-> "", Answer |-> Null,
   hint |-> Null]
DetailRow(id, question, answer) ==
  [RecordType |-> "Detail", QUESTION_ID |-> id, Question |-> question, Answer |-> answer,
   hint |-> Null]

\* the details response of scenario S4
CertPayload ==
  <<HeaderRow, DetailRow("1", "MCS Certificate Number", "MCS-123"),
    DetailRow("7", "Install type", "Bolt-on")>>
\* a response without any Detail row
HeaderOnlyPayload == <<HeaderRow>>

Rule(questionKey, keysAny, op, value, severity) ==
  [questionKey |-> questionKey, enabled |-> TRUE, questionKeysAny |-> keysAny,
   nonCompliantWhen |-> [op |-> op, value |-> value, values |-> {value},
                         trim |-> Null, caseInsensitive |-> "true"],
   finding |-> [severity |-> severity,
                majorNonCompliantText |-> IF severity = "Major" THEN "major text" ELSE Null,
                minorNonCompliantText |-> IF severity = "Minor" THEN "minor text" ELSE Null]]

RulesDoc(name, rules, ignoreKeys) ==
  [valid |-> TRUE, ruleSetName |-> name, ruleSetVersion |-> DEFAULT_RULESET_MAP[name],
   answerNormalization |-> [trim |-> TRUE, caseInsensitive |-> TRUE, emptyIsNull |-> TRUE],
   rules |-> rules, ignoreQuestionKeys |-> ignoreKeys,
   scoring |-> [outcomeRules |->
                  <<[when |-> [always |-> FALSE, majorCountGte |-> 1, minorCountGte |-> NoTime],
                     outcome |-> "Fail"],
                    [when |-> [always |-> TRUE, majorCountGte |-> NoTime,
                               minorCountGte |-> NoTime],
                     outcome |-> "Pass"]>>,
                scoreValue |-> [from |-> "outcome", type |-> "text", fixedValue |-> Null]]]

\* a PV rule set with the rule of scenario S5, made eligible through questionKeysAny
BoltOnRules == <<Rule("7", {"7"}, "equals", "Bolt-on", "Major")>>

\* a rule file that is absent or that loadRules rejects
UnloadableDoc == [valid |-> FALSE]

StandardRulesFiles ==
  [PV |-> RulesDoc("PV", BoltOnRules, {}), HeatPump |-> RulesDoc("HeatPump", <<>>, {})]

\* the remote side updates an audit again: its Updated_On moves forward
RemoteUpdate ==
  /\ changes > 0
  /\ changes' = changes - 1
  /\ \E i \in DOMAIN remoteSummary : \E t \in Times :
       /\ t > remoteSummary[i].completedAt
       /\ remoteSummary' = [remoteSummary EXCEPT ![i].completedAt = t]
  /\ UNCHANGED <<dbVars, Installation, remoteDetails, rulesFiles, remoteScripts, run, counts, queue,
                 worker, faults>>

\* the store as deployed: empty tables, no run started
InitTables ==
  /\ JobWatermark = {}
  /\ JobRunHistory = {}
  /\ ProcessedItems = {}
  /\ GoAuditsReports = {}
  /\ GoAuditsReportAnswers = {}
  /\ GoAuditsFindings = {}
  /\ GoAuditsScores = {}
  /\ GoAuditsEmailOutbox = EmptyBag
  /\ run = [r \in Runs |-> IdleRun]
  /\ counts = [r \in Runs |-> ZeroCounts]
  /\ queue = [r \in Runs |-> <<>>]
  /\ worker = [r \in Runs |-> [w \in Workers |-> ExitedWorker]]

\* the store of a deployment whose Installation lookup has no row
InitStore ==
  /\ InitTables
  /\ Installation = {}

\* the steps of run r other than its start
RunStep(r) ==
  \/ FetchSummary(r)
  \/ IngestItem(r)
  \/ AdvanceWatermark(r)
  \/ Finalise(r)
  \/ FailRun(r)
  \/ \E w \in Workers : DetailsFetch(r, w)
  \/ \E w \in Workers : EnrichTx(r, w)
  \/ \E w \in Workers : ResolveAndLoad(r, w)
  \/ \E w \in Workers : ScoreBegin(r, w)
  \/ \E w \in Workers : ScoreCommit(r, w)

\* GOAUDITS_BATCH_SIZE and GOAUDITS_START_DATE of a run
BatchConfigs ==
  {[DefaultConfig EXCEPT !.batchSize = b, !.startOverride = s] :
     b \in 1..MaxItems, s \in {NoTime, Epoch}}

\* a run started by the scheduler once the previous one has exited
SequentialStart(r, cfg) ==
  /\ \A q \in Runs : run[q].pc \in {"idle", "done"}
  /\ RunStart(r, cfg)

\* the one audit of scenario S1
OneAudit == [reportId : {IdOrder[1]}, completedAt : Times, hint : {"Solar PV"}]

\* the PV rule set exactly as scenario S5 writes it: its rule names no questionKeysAny
S5RulesFiles ==
  [PV |-> RulesDoc("PV", <<Rule("7", {}, "equals", "Bolt-on", "Major")>>, {}),
   HeatPump |-> RulesDoc("HeatPump", <<>>, {})]

\* rules a PV rule document may list: two severities on question 7, a rule on a
\* question the payload does not answer, and a rule with an operator the
\* evaluator does not know
ScoringRules ==
  {Rule("7", {"7"}, "equals", "Bolt-on", "Major"),
   Rule("7", {"7"}, "equals", "Bolt-on", "Minor"),
   Rule("8", {"7"}, "missing", Null, "Minor"),
   Rule("7", {"7"}, "matches", "Bolt-on", "Major")}

\* Runs one after another against a fixed remote snapshot
Init ==
  /\ InitStore
  /\ remoteSummary \in SeqsUpTo(SummaryItems, MaxItems)
  /\ remoteDetails = [id \in ReportIds |-> CertPayload]
  /\ rulesFiles = StandardRulesFiles
  /\ remoteScripts = HardFailureScripts
  /\ faults = MaxFaults
  /\ changes = 0

Next ==
  \/ \E r \in Runs : \E cfg \in BatchConfigs : SequentialStart(r, cfg)
  \/ \E r \in Runs : RunStep(r)

Spec == Init /\ [][Next]_vars

\* Runs that overlap in time while the remote side updates the audit they read
OverlapInit ==
  /\ InitStore
  /\ remoteSummary \in [1..1 -> OneAudit]
  /\ remoteDetails = [id \in ReportIds |-> CertPayload]
  /\ rulesFiles \in {StandardRulesFiles, S5RulesFiles}
  /\ remoteScripts = HardFailureScripts
  /\ faults = MaxFaults
  /\ changes = MaxRemoteChanges

OverlapNext ==
  \/ \E r \in Runs : RunStart(r, DefaultConfig)
  \/ \E r \in Runs : RunStep(r)
  \/ RemoteUpdate

OverlapSpec == OverlapInit /\ [][OverlapNext]_vars

\* One audit scored, run after run, under every small PV rule document
ScoringInit ==
  /\ InitStore
  /\ remoteSummary \in [1..1 -> OneAudit]
  /\ remoteDetails = [id \in ReportIds |-> CertPayload]
  /\ rulesFiles \in {[PV |-> RulesDoc("PV", rules, {}),
                      HeatPump |-> RulesDoc("HeatPump", <<>>, {})] :
                       rules \in SeqsUpTo(ScoringRules, MaxRules)}
  /\ remoteScripts = HardFailureScripts
  /\ faults = MaxFaults
  /\ changes = 0

ScoringSpec == ScoringInit /\ [][Next]_vars

\* scheduled runs: GOAUDITS_BATCH_SIZE set, no start or end override
ScheduledConfigs == {cfg \in BatchConfigs : cfg.startOverride = NoTime}

\* the steps of run r while no call and no transaction fails
CleanStep(r) ==
  \/ FetchSummary(r)
  \/ IngestItem(r)
  \/ AdvanceWatermark(r)
  \/ Finalise(r)
  \/ \E w \in Workers : DetailsFetch(r, w)
  \/ \E w \in Workers : EnrichTx(r, w)
  \/ \E w \in Workers : ResolveAndLoad(r, w)
  \/ \E w \in Workers : ScoreBegin(r, w)
  \/ \E w \in Workers : ScoreCommit(r, w)

\* successive scheduled runs on a fixed remote snapshot without failures: the
\* timer starts the next run once the previous one has exited, and a started run
\* runs to its exit
ScheduledInit ==
  /\ InitStore
  /\ remoteSummary \in SeqsUpTo(SummaryItems, MaxItems)
  /\ remoteDetails = [id \in ReportIds |-> CertPayload]
  /\ rulesFiles = StandardRulesFiles
  /\ remoteScripts = HardFailureScripts
  /\ faults = 0
  /\ changes = 0

ScheduledNext ==
  \/ \E r \in Runs : \E cfg \in ScheduledConfigs : SequentialStart(r, cfg)
  \/ \E r \in Runs : CleanStep(r)

ScheduledSpec == ScheduledInit /\ [][ScheduledNext]_vars /\ WF_vars(ScheduledNext)

\* two audits completed at the same time, so that one run queues both
TwoAudits ==
  <<[reportId |-> IdOrder[1], completedAt |-> 1, hint |-> "Solar PV"],
    [reportId |-> IdOrder[2], completedAt |-> 1, hint |-> "Solar PV"]>>

\* sequential runs against a remote API that answers a failing call by any
\* mix of transient failures followed by any response, and whose details
\* payload of a report may lack a RecordType=Detail row
HttpInit ==
  /\ InitStore
  /\ remoteSummary = TwoAudits
  /\ remoteDetails \in
       {d \in [ReportIds -> {CertPayload, HeaderOnlyPayload}] :
          \A id \in ReportIds :
            (\A i \in DOMAIN TwoAudits : TwoAudits[i].reportId # id) => d[id] = CertPayload}
  /\ rulesFiles = StandardRulesFiles
  /\ remoteScripts = FlakyScripts
  /\ faults = MaxFaults
  /\ changes = 0

HttpNext ==
  \/ \E r \in Runs : SequentialStart(r, DefaultConfig)
  \/ \E r \in Runs : RunStep(r)

HttpSpec == HttpInit /\ [][HttpNext]_vars

\* GOAUDITS_PIPELINE_DRYRUN, GOAUDITS_PIPELINE_MATERIALISE_EMAIL and
\* GOAUDITS_START_DATE of a run
DryRunConfigs ==
  {[DefaultConfig EXCEPT !.dryRun = d, !.materialiseEmail = m, !.startOverride = s] :
     d \in BOOLEAN, m \in BOOLEAN, s \in {NoTime, Epoch}}

\* dry runs and real runs of one audit, one after another, under every small
\* PV rule document
DryRunInit ==
  /\ InitStore
  /\ remoteSummary \in [1..1 -> OneAudit]
  /\ remoteDetails = [id \in ReportIds |-> CertPayload]
  /\ rulesFiles \in {[PV |-> RulesDoc("PV", rules, {}),
                      HeatPump |-> RulesDoc("HeatPump", <<>>, {})] :
                       rules \in SeqsUpTo(ScoringRules, MaxRules)}
  /\ remoteScripts = HardFailureScripts
  /\ faults = MaxFaults
  /\ changes = 0

DryRunNext ==
  \/ \E r \in Runs : \E cfg \in DryRunConfigs : SequentialStart(r, cfg)
  \/ \E r \in Runs : RunStep(r)

DryRunSpec == DryRunInit /\ [][DryRunNext]_vars

\* rules a PV rule document may list: the three operators, a disabled rule, a
\* rule that compares case-sensitively, and a rule with an unsupported operator
EvalRules ==
  {Rule("7", {"7"}, "equals", "Bolt-on", "Major"),
   Rule("7", {"7"}, "in", "Bolt-on", "Minor"),
   Rule("8", {"7"}, "missing", Null, "Minor"),
   [Rule("7", {"7"}, "equals", "Bolt-on", "Major") EXCEPT !.enabled = FALSE],
   [Rule("9", {"7"}, "equals", "Bolt-on", "Minor") EXCEPT
      !.questionKey = "7", !.nonCompliantWhen.caseInsensitive = "false"],
   Rule("7", {"7"}, "matches", "Bolt-on", "Major")}

\* scoring.outcomeRules of a document: with a final always rule, without one,
\* and empty
EvalOutcomeRules ==
  {<<[when |-> [always |-> FALSE, majorCountGte |-> 1, minorCountGte |-> NoTime],
      outcome |-> "Fail"],
     [when |-> [always |-> TRUE, majorCountGte |-> NoTime, minorCountGte |-> NoTime],
      outcome |-> "Pass"]>>,
   <<[when |-> [always |-> FALSE, majorCountGte |-> NoTime, minorCountGte |-> 1],
      outcome |-> "Advisory"],
     [when |-> [always |-> FALSE, majorCountGte |-> 1, minorCountGte |-> NoTime],
      outcome |-> "Fail"]>>,
   <<>>}

\* the answers the audit may give to question 7
EvalAnswers == {"Bolt-on", "Bolt-on ", "bolt-on", "other"}

EvalPayload(answer) ==
  <<HeaderRow, DetailRow("1", "MCS Certificate Number", "MCS-123"),
    DetailRow("7", "Install type", answer)>>

\* a real run or a dry run
EvalConfigs == {[DefaultConfig EXCEPT !.dryRun = d] : d \in BOOLEAN}

\* one audit scored, by a real run or a dry run, under every small PV rule
\* document and every answer, while no call and no SQL statement fails
EvalInit ==
  /\ InitStore
  /\ remoteSummary = <<[reportId |-> IdOrder[1], completedAt |-> 1, hint |-> "Solar PV"]>>
  /\ remoteDetails \in {[id \in ReportIds |-> EvalPayload(a)] : a \in EvalAnswers}
  /\ rulesFiles \in {[PV |-> [RulesDoc("PV", rules, {}) EXCEPT !.scoring.outcomeRules = o],
                      HeatPump |-> RulesDoc("HeatPump", <<>>, {})] :
                       rules \in SeqsUpTo(EvalRules, MaxRules), o \in EvalOutcomeRules}
  /\ remoteScripts = HardFailureScripts
  /\ faults = 0
  /\ changes = 0

EvalNext ==
  \/ \E r \in Runs : \E cfg \in EvalConfigs : SequentialStart(r, cfg)
  \/ \E r \in Runs : RunStep(r)

EvalSpec == EvalInit /\ [][EvalNext]_vars

\* four audits completed at the same time: tie expansion puts all of them into
\* one batch, one more than there are workers
FourAudits ==
  [i \in 1..Len(IdOrder) |-> [reportId |-> IdOrder[i], completedAt |-> 1, hint |-> "Solar PV"]]

\* runs whose queue is longer than the number of workers
QueueInit ==
  /\ InitStore
  /\ remoteSummary = FourAudits
  /\ remoteDetails = [id \in ReportIds |-> CertPayload]
  /\ rulesFiles = StandardRulesFiles
  /\ remoteScripts = HardFailureScripts
  /\ faults = MaxFaults
  /\ changes = 0

QueueSpec == QueueInit /\ [][HttpNext]_vars

\* a Header row that carries the certificate number, and a Detail row without
\* question and answer
CertHeaderRow(cert) ==
  [HeaderRow EXCEPT !.QUESTION_ID = "1", !.Question = "MCS Certificate Number",
                    !.Answer = cert]
BlankDetailRow == DetailRow(Null, "", Null)

\* details responses of one audit: scenario S4, the same with another
\* certificate number and another answer, two that carry a certificate number
\* and no answer, and one that answers question 7 twice
AmendPayloads ==
  {CertPayload,
   <<HeaderRow, DetailRow("1", "MCS Certificate Number", "MCS-456"),
     DetailRow("7", "Install type", "other")>>,
   <<CertHeaderRow("MCS-123"), BlankDetailRow>>,
   <<CertHeaderRow("MCS-456"), BlankDetailRow>>,
   <<HeaderRow, DetailRow("7", "Install type", "Bolt-on"),
     DetailRow("7", "Install type", "other")>>}

\* the remote side changes the details of the audit
RemoteAmend ==
  /\ changes > 0
  /\ changes' = changes - 1
  /\ \E payload \in AmendPayloads :
       /\ payload # remoteDetails[IdOrder[1]]
       /\ remoteDetails' = [remoteDetails EXCEPT ![IdOrder[1]] = payload]
  /\ UNCHANGED <<dbVars, Installation, remoteSummary, rulesFiles, remoteScripts, run, counts, queue,
                 worker, faults>>

\* GOAUDITS_START_DATE of a run: unset, or set so that the audit is selected again
AmendConfigs == {[DefaultConfig EXCEPT !.startOverride = s] : s \in {NoTime, Epoch}}

\* runs of one audit, one after another or overlapping, while the remote side
\* changes the details it answers
AmendInit ==
  /\ InitStore
  /\ remoteSummary = <<[reportId |-> IdOrder[1], completedAt |-> 1, hint |-> "Solar PV"]>>
  /\ remoteDetails \in {[id \in ReportIds |-> IF id = IdOrder[1] THEN payload ELSE CertPayload] :
                          payload \in AmendPayloads}
  /\ rulesFiles = StandardRulesFiles
  /\ remoteScripts = HardFailureScripts
  /\ faults = MaxFaults
  /\ changes = MaxRemoteChanges

AmendNext ==
  \/ \E r \in Runs : \E cfg \in AmendConfigs : RunStart(r, cfg)
  \/ \E r \in Runs : RunStep(r)
  \/ RemoteAmend

AmendSpec == AmendInit /\ [][AmendNext]_vars

\* contents of the Installation lookup: no row, one row of the audit's
\* certificate, or two rows of it (written in different case) under two installers
InstallationLookups ==
  {{},
   {[id |-> 1, certificateNumber |-> "MCS-123", installerId |-> "I1"]},
   {[id |-> 1, certificateNumber |-> "MCS-123", installerId |-> "I1"],
    [id |-> 2, certificateNumber |-> "mcs-123", installerId |-> "I2"]}}

\* GOAUDITS_PIPELINE_MATERIALISE_EMAIL=true with either scope
OutboxConfigs ==
  {[DefaultConfig EXCEPT !.materialiseEmail = TRUE, !.materialiseScope = sc] :
     sc \in {"all", "batch"}}

\* runs of one audit that materialise the outbox, one after another or overlapping
OutboxInit ==
  /\ InitTables
  /\ Installation \in InstallationLookups
  /\ remoteSummary \in [1..1 -> OneAudit]
  /\ remoteDetails = [id \in ReportIds |-> CertPayload]
  /\ rulesFiles = StandardRulesFiles
  /\ remoteScripts = HardFailureScripts
  /\ faults = MaxFaults
  /\ changes = 0

OutboxNext ==
  \/ \E r \in Runs : \E cfg \in OutboxConfigs : RunStart(r, cfg)
  \/ \E r \in Runs : RunStep(r)

OutboxSpec == OutboxInit /\ [][OutboxNext]_vars

\* runs of one audit, one after another, against a store that may fail twice
OutageInit ==
  /\ InitStore
  /\ remoteSummary \in [1..1 -> OneAudit]
  /\ remoteDetails = [id \in ReportIds |-> CertPayload]
  /\ rulesFiles = StandardRulesFiles
  /\ remoteScripts = HardFailureScripts
  /\ faults = MaxFaults + 1
  /\ changes = 0

OutageNext ==
  \/ \E r \in Runs : SequentialStart(r, DefaultConfig)
  \/ \E r \in Runs : RunStep(r)

OutageSpec == OutageInit /\ [][OutageNext]_vars

\* GOAUDITS_START_DATE of a run: unset, or any instant up to the latest audit
WindowConfigs ==
  {[DefaultConfig EXCEPT !.startOverride = s] : s \in {NoTime, Epoch} \cup Times}

\* runs one after another whose start override lies before, at or after the
\* watermark
WindowNext ==
  \/ \E r \in Runs : \E cfg \in WindowConfigs : SequentialStart(r, cfg)
  \/ \E r \in Runs : RunStep(r)

WindowSpec == Init /\ [][WindowNext]_vars

\* an audit whose summary item carries no hint of its rule set
UnhintedAudit == [reportId : {IdOrder[1]}, completedAt : Times, hint : {Null}]

\* question keys a details response may carry
ResolveKeys == <<"7", "8", "9">>

\* a details response with one Detail row for each of the given question keys
KeysPayload(keys) ==
  <<HeaderRow>> \o
    [i \in 1..Len(SelectSeq(ResolveKeys, LAMBDA k : k \in keys)) |->
       DetailRow(SelectSeq(ResolveKeys, LAMBDA k : k \in keys)[i], "Install type", "a")]

\* rule documents whose question keys overlap: PV names 7, or 7 and 9; HeatPump
\* names 8 and may ignore 9 or 7
ResolveRulesFiles ==
  {[PV |-> RulesDoc("PV", <<Rule("7", pv, "equals", "a", "Minor")>>, {}),
    HeatPump |-> RulesDoc("HeatPump", <<Rule("8", {"8"}, "equals", "a", "Minor")>>, ig)] :
     pv \in {{"7"}, {"7", "9"}}, ig \in {{}, {"9"}, {"7"}}}

\* runs of one audit without a rule set hint, under every such response and
\* pair of rule documents
ResolveInit ==
  /\ InitStore
  /\ remoteSummary \in [1..1 -> UnhintedAudit]
  /\ remoteDetails \in {[id \in ReportIds |-> KeysPayload(keys)] :
                          keys \in SUBSET {ResolveKeys[i] : i \in DOMAIN ResolveKeys}}
  /\ rulesFiles \in ResolveRulesFiles
  /\ remoteScripts = HardFailureScripts
  /\ faults = MaxFaults
  /\ changes = 0

ResolveNext ==
  \/ \E r \in Runs : SequentialStart(r, DefaultConfig)
  \/ \E r \in Runs : RunStep(r)

ResolveSpec == ResolveInit /\ [][ResolveNext]_vars

\* ------------------------------------------------------------ properties

\* the stored GoAuditsIngestion watermark (the epoch while there is no row)
WatermarkUtc == getWatermark(JobWatermark).watermark

\* run r has exited with status Succeeded
Succeeded(r) == run[r].pc = "done" /\ run[r].status = "Succeeded"

\* run r is the last run started so far
Latest(r) == run[r].pc # "idle" /\ \A q \in Runs : q > r => run[q].pc = "idle"

IngestionLedgerOf(reportId) ==
  {p \in ProcessedItems : p.jobName = INGESTION_JOB_NAME /\ p.itemKey = reportId}

HasScoringLedger(tbl, key) ==
  \E p \in tbl : p.jobName = SCORING_JOB_NAME /\ p.itemKey = key

HasScore(tbl, key) ==
  \E x \in tbl : <<x.reportId, x.ruleSetName, x.ruleSetVersion>> = key

\* C1 (as amended): for sequential Succeeded runs the watermark after run i+1 is
\* at least the watermark after run i, and the two are equal exactly when run i+1
\* selected nothing, or selected nothing completed after that watermark, or had a
\* failed ingest transaction
C1_SequentialWatermark ==
  \A r \in Runs \ {1} :
    (Succeeded(r - 1) /\ Succeeded(r) /\ Latest(r)) =>
      /\ WatermarkUtc >= run[r].watermark
      /\ (WatermarkUtc = run[r].watermark) <=>
           (\/ run[r].selected = <<>>
            \/ run[r].maxCompletedAtUtc <= run[r].watermark
            \/ counts[r].ingestFailedCount > 0)

\* C1 witness: a second Succeeded run that found a new item, failed to ingest it
\* and left the watermark of the first run in place
C1_Witness ==
  \E r \in Runs \ {1} :
    /\ Succeeded(r - 1) /\ Succeeded(r) /\ Latest(r)
    /\ run[r].watermark > Epoch
    /\ run[r].cfg.startOverride = NoTime
    /\ counts[r].eligible > 0
    /\ counts[r].ingestFailedCount > 0
    /\ WatermarkUtc = run[r].watermark

\* C1 as stated: for sequential Succeeded runs without a start override the
\* watermark does not decrease and stays equal only when run i+1 found no
\* eligible item
C1_EqualOnlyWithoutEligibleItems ==
  \A r \in Runs \ {1} :
    (Succeeded(r - 1) /\ Succeeded(r) /\ Latest(r) /\ run[r].cfg.startOverride = NoTime) =>
      /\ WatermarkUtc >= run[r].watermark
      /\ (WatermarkUtc = run[r].watermark => counts[r].eligible = 0)

\* C2 as stated: while runs overlap, no step lowers the stored watermark
C2_WatermarkNeverDecreases == [][WatermarkUtc' >= WatermarkUtc]_vars

\* C3: a run with a failed ingest transaction leaves the watermark row as it
\* read it, whatever happened to its other items
C3_FailedIngestKeepsWatermark ==
  \A r \in Runs :
    (Latest(r) /\ counts[r].ingestFailedCount > 0) =>
      getWatermark(JobWatermark) =
        [watermark |-> run[r].watermark, exists |-> run[r].watermarkExists]

\* C3 witness: a finished run in which one item failed and a later-completed one
\* was ingested
C3_Witness ==
  \E r \in Runs :
    /\ Latest(r) /\ run[r].pc = "done"
    /\ counts[r].ingestFailedCount > 0
    /\ counts[r].ingested > 0
    /\ run[r].maxCompletedAtUtc > run[r].watermark

\* C4: at most one Report row per reportId, and exactly one ingestion ledger
\* entry for every Report row, also after replays and duplicate ids in a summary
C4_OneReportOneLedgerEntry ==
  /\ \A x, y \in GoAuditsReports : x.reportId = y.reportId => x = y
  /\ \A x \in GoAuditsReports : Cardinality(IngestionLedgerOf(x.reportId)) = 1

\* C4 witness: a run whose batch listed one reportId twice, followed by a run
\* that replayed it
C4_Witness ==
  /\ Len(run[1].selected) = 2
  /\ run[1].selected[1].reportId = run[1].selected[2].reportId
  /\ counts[1].ingested = 1
  /\ counts[1].ingestAlreadyProcessed = 1
  /\ run[2].pc = "done"
  /\ counts[2].ingestAlreadyProcessed > 0

\* C5: in every state a ReportAnswer row of a report comes with the enrichment
\* ledger entry of that report
C5_AnswersImplyEnrichmentLedger ==
  \A a \in GoAuditsReportAnswers :
    \E p \in ProcessedItems : p.jobName = ENRICHMENT_JOB_NAME /\ p.itemKey = a.reportId

\* C5 witness: two overlapping runs have both run the enrichment transaction of
\* the same report
C5_Witness ==
  /\ GoAuditsReportAnswers # {}
  /\ counts[1].detailsProcessed = 1
  /\ counts[2].detailsProcessed = 1

\* C6: in every state a Score row comes with the scoring ledger entry whose key
\* is its reportId, rule set name and version
C6_ScoreImpliesScoringLedger ==
  \A x \in GoAuditsScores :
    HasScoringLedger(ProcessedItems, <<x.reportId, x.ruleSetName, x.ruleSetVersion>>)

\* C6 witness: a Score row committed after an earlier scoring attempt failed
C6_Witness ==
  /\ GoAuditsScores # {}
  /\ \E r \in Runs : counts[r].scoreFailedCount > 0

\* C7 as stated: the counts of a Score row are the numbers of Finding rows of
\* that severity under the same key
C7_CountsMatchFindingRows ==
  \A x \in GoAuditsScores :
    LET rows(severity) ==
          {f \in GoAuditsFindings :
             /\ <<f.reportId, f.ruleSetName, f.ruleSetVersion>> =
                  <<x.reportId, x.ruleSetName, x.ruleSetVersion>>
             /\ f.severity = severity}
    IN /\ x.majorCount = Cardinality(rows("Major"))
       /\ x.minorCount = Cardinality(rows("Minor"))

\* C8 as stated: a Major Finding row has no minor text and a Minor Finding row
\* has no major text
C8_SeverityTextExclusive ==
  \A f \in GoAuditsFindings :
    /\ f.severity = "Major" => f.minorNonCompliantText = Null
    /\ f.severity = "Minor" => f.majorNonCompliantText = Null

\* the tables a scoring transaction writes
ScoreTables == <<ProcessedItems, GoAuditsFindings, GoAuditsScores>>

\* the counters by which scoreReport reports how an attempt ended
OutcomeCounters ==
  {"scoreProcessed", "scoreAlreadyProcessed", "scoreFailedCount", "skippedNotEligible"}

Counted(r, field) ==
  \A g \in OutcomeCounters :
    counts'[r][g] = counts[r][g] + (IF g = field THEN 1 ELSE 0)

\* a step in which the scoreReport call of worker w of run r ends
AttemptEnds(r, w) ==
  /\ worker'[r][w] # worker[r][w]
  /\ \/ worker[r][w].pc = "scoreTx"
     \/ /\ worker[r][w].pc = "score"
        /\ worker'[r][w].pc # "scoreTx"
        /\ run'[r].pc # "done"

AttemptCommitted(r, w) ==
  LET key == ScoreKeyOf(worker[r][w])
  IN /\ worker[r][w].pc = "scoreTx"
     /\ ~HasScoringLedger(ProcessedItems, key) /\ HasScoringLedger(ProcessedItems', key)
     /\ ~HasScore(GoAuditsScores, key) /\ HasScore(GoAuditsScores', key)
     /\ Counted(r, "scoreProcessed")

AttemptCollided(r, w) ==
  /\ HasScoringLedger(ProcessedItems, ScoreKeyOf(worker[r][w]))
  /\ UNCHANGED ScoreTables
  /\ Counted(r, "scoreAlreadyProcessed")

AttemptRolledBack(r, w) ==
  /\ UNCHANGED ScoreTables
  /\ Counted(r, "scoreFailedCount")

AttemptNotEligible(r, w) ==
  LET key == ScoreKeyOf(worker[r][w])
  IN /\ worker[r][w].pc = "scoreTx"
     /\ ~HasScoringLedger(ProcessedItems, key) /\ HasScoringLedger(ProcessedItems', key)
     /\ UNCHANGED <<GoAuditsFindings, GoAuditsScores>>
     /\ Counted(r, "skippedNotEligible")

AttemptCutOff(r, w) ==
  /\ run'[r].pc = "done"
  /\ UNCHANGED ScoreTables
  /\ counts' = counts

\* transaction.begin() threw: there is no transaction, nothing is counted, and the
\* error leaves the worker
AttemptNeverBegan(r, w) ==
  /\ worker[r][w].pc = "score"
  /\ worker'[r][w].threw = "begin"
  /\ run'[r].pc = "failing"
  /\ UNCHANGED ScoreTables
  /\ counts' = counts

\* C9 (as amended): a scoring attempt commits findings and a score only for a key
\* that has neither ledger entry nor score, so at most once per key; every other
\* attempt commits no finding and no score: it hits the ledger collision
\* (scoreAlreadyProcessed), or rolls back on an error (scoreFailedCount), or
\* commits the ledger entry alone for a report that is not eligible
\* (skippedNotEligible), or cannot begin its transaction and fails the run
\* uncounted, or is cut off by the exit of a failing run
C9_OneScoringCommitPerKey ==
  [][\A r \in Runs : \A w \in Workers :
       AttemptEnds(r, w) =>
         \/ AttemptCommitted(r, w)
         \/ AttemptCollided(r, w)
         \/ AttemptRolledBack(r, w)
         \/ AttemptNotEligible(r, w)
         \/ AttemptNeverBegan(r, w)
         \/ AttemptCutOff(r, w)]_vars

\* C9 witness: of two overlapping runs one has committed the score of the key
\* and the other has hit the ledger collision
C9_Witness ==
  \E r, q \in Runs :
    /\ r # q
    /\ counts[r].scoreProcessed = 1
    /\ counts[q].scoreAlreadyProcessed = 1
    /\ GoAuditsScores # {}

\* C9 as stated: every scoring attempt either commits findings and score for a
\* fresh key or hits the ledger collision and counts scoreAlreadyProcessed
C9_EveryOtherAttemptCollides ==
  [][\A r \in Runs : \A w \in Workers :
       AttemptEnds(r, w) => (AttemptCommitted(r, w) \/ AttemptCollided(r, w))]_vars

\* the situation of scenario S2: a summary of one item, ingested by the first
\* run (counted and committed), and a second run that has ended on the same
\* summary
DuplicateRerun ==
  /\ Len(remoteSummary) = 1
  /\ Succeeded(1) /\ counts[1].ingested = 1 /\ counts[1].ingestFailedCount = 0
  /\ Succeeded(2) /\ Latest(2)

\* C10 (as amended): the second run ingests nothing, adds no ingestion ledger row
\* and leaves the watermark at the item's completion time; without a start
\* override the item is filtered out at the watermark (skipped, nothing selected,
\* ingestAlreadyProcessed = 0, no ledger row of any kind); with a start override
\* that admits it again, ingestAlreadyProcessed = 1
C10_DuplicateRerun ==
  DuplicateRerun =>
    /\ counts[2].ingested = 0
    /\ \A p \in ProcessedItems : p.jobName = INGESTION_JOB_NAME => p.runId = 1
    /\ WatermarkUtc = run[2].watermark
    /\ WatermarkUtc = remoteSummary[1].completedAt
    /\ run[2].cfg.startOverride = NoTime =>
         /\ counts[2].skipped = 1
         /\ counts[2].selected = 0
         /\ counts[2].ingestAlreadyProcessed = 0
         /\ \A p \in ProcessedItems : p.runId = 1
    /\ (run[2].cfg.startOverride # NoTime /\ counts[2].ingestFailedCount = 0) =>
         counts[2].ingestAlreadyProcessed = 1

\* C10 witness: the scheduled rerun of scenario S2 has ended
C10_Witness ==
  /\ DuplicateRerun
  /\ run[2].cfg.startOverride = NoTime
  /\ counts[2].fetched = 1

\* C10 as stated: the scheduled rerun reports ingested = 0 and
\* ingestAlreadyProcessed = 1, adds no ledger row and keeps the watermark
C10_RerunCountsAlreadyProcessed ==
  (DuplicateRerun /\ run[2].cfg.startOverride = NoTime) =>
    /\ counts[2].ingested = 0
    /\ counts[2].ingestAlreadyProcessed = 1
    /\ \A p \in ProcessedItems : p.runId = 1
    /\ WatermarkUtc = run[2].watermark

\* the four result tables of the pipeline
ResultTables ==
  <<GoAuditsReports, GoAuditsReportAnswers, GoAuditsFindings, GoAuditsScores>>

\* a step taken while run 2 repeats the configuration of the Succeeded run 1
SecondRunStep ==
  /\ Succeeded(1)
  /\ run[2].pc # "done"
  /\ run'[2].pc # "idle"
  /\ run'[2].cfg = run[1].cfg

\* run 1 selected every eligible item and none of its ingest transactions failed;
\* when its start override admits the items again, none of its enrichment or
\* scoring steps failed either
FirstRunComplete ==
  /\ counts[1].selected = counts[1].eligible
  /\ counts[1].ingestFailedCount = 0
  /\ run[1].cfg.startOverride # NoTime =>
       /\ counts[1].detailsFailedCount = 0
       /\ counts[1].scoreFailedCount = 0

\* C11 (as amended): when the first run selected every eligible item and had no
\* failed ingest transaction (and, under a start override, no failed enrichment
\* or scoring step), no step of a second run with the same configuration on the
\* same remote snapshot changes the Reports, ReportAnswers, Findings or Scores
\* tables
C11_SecondRunKeepsTables ==
  [][(SecondRunStep /\ FirstRunComplete) => UNCHANGED ResultTables]_vars

\* C11 witness: the second run has ended after a complete first run that wrote a
\* Report and a Score row
C11_Witness ==
  /\ Succeeded(1) /\ FirstRunComplete
  /\ counts[1].ingested >= 1 /\ counts[1].scoreProcessed >= 1
  /\ run[2].pc = "done" /\ run[2].cfg = run[1].cfg
  /\ GoAuditsScores # {}

\* C11 as stated: no step of a second run with the same configuration on the
\* same remote snapshot changes the four tables
C11_SecondRunNeverChangesTables ==
  [][SecondRunStep => UNCHANGED ResultTables]_vars

\* both runs have ended Succeeded with the same configuration, the first one
\* having selected every eligible item
SameConfigRerun ==
  /\ Succeeded(1) /\ Succeeded(2) /\ Latest(2)
  /\ run[2].cfg = run[1].cfg
  /\ counts[1].selected = counts[1].eligible

\* run r counted no failed ingest, details or scoring step
NoFailedStep(r) ==
  /\ counts[r].ingestFailedCount = 0
  /\ counts[r].detailsFailedCount = 0
  /\ counts[r].scoreFailedCount = 0

HasBatch(r) == run[r].pc \notin {"idle", "fetch"} /\ run[r].selected # <<>>

\* the positions of the summary run r fetched that pass its eligibility filter
EligiblePositions(r) ==
  {i \in DOMAIN run[r].summary :
     IsEligible(run[r].summary[i], run[r].cfg, run[r].watermark)}

\* the completion time of the last item of run r's batch
BatchTime(r) == run[r].selected[Len(run[r].selected)].completedAtUtc

HasReportRow(i) ==
  \E x \in GoAuditsReports : x.reportId = remoteSummary[i].reportId

\* the summary items with a reportId and a parseable completedAt later than the
\* initial watermark
EligibleAtStart ==
  {i \in DOMAIN remoteSummary : IsEligible(remoteSummary[i], DefaultConfig, Epoch)}

\* C14: on a fixed remote snapshot, with no override and no failure, every
\* summary item eligible at the initial watermark that lies at or below the
\* stored watermark has a Report row at all times, and after enough successive
\* runs every such item has a Report row, whatever the batchSize of each run and
\* the distribution of tied completedAt values
C14_NoEligibleItemLost ==
  /\ [](\A i \in EligibleAtStart :
          remoteSummary[i].completedAt <= WatermarkUtc => HasReportRow(i))
  /\ <>[](\A i \in EligibleAtStart : HasReportRow(i))

\* C14 witness: two runs with batchSize 1 have each ingested one of two items
\* with different completedAt values
C14_Witness ==
  /\ Len(remoteSummary) = 2
  /\ remoteSummary[1].completedAt # remoteSummary[2].completedAt
  /\ run[1].cfg.batchSize = 1 /\ run[2].cfg.batchSize = 1
  /\ \A i \in EligibleAtStart : HasReportRow(i)
  /\ {x.jobRunId : x \in GoAuditsReports} = {1, 2}

\* the responses after which the call goes on to another attempt
RetryableResponses == StatusRetryResponses \cup ExceptionResponses

\* a call that ended: it made between 1 and 5 POST attempts, every attempt but
\* the last was retried, it returned after a 2xx response or threw, and when it
\* met a fifth retryable response it threw
EndedWithinBudget(call) ==
  /\ call.attempts \in 1..5
  /\ call.attempts = call.statusRetries + call.exceptionRetries + 1
  /\ call.thrown \/ call.last \in {"ok", "notArray"}
  /\ call.last \in RetryableResponses => (call.thrown /\ call.attempts = 5)

\* C15: whatever the sequence of responses, the summary call and the details
\* call each make at most 5 POST attempts and then return or throw; the retries
\* after a 429/5xx status and the retries after a network error or timeout
\* count against the same budget, so a call that meets 5 retryable responses of
\* any mix throws at its fifth attempt
C15_AttemptBudget ==
  \A r \in Runs :
    /\ run[r].summaryCall # NoCall => EndedWithinBudget(run[r].summaryCall)
    /\ \A w \in Workers :
         worker[r][w].detailsCall # NoCall =>
           EndedWithinBudget(worker[r][w].detailsCall)

\* C15 witness: a summary call has thrown at its fifth attempt after retries of
\* both kinds
C15_Witness ==
  \E r \in Runs :
    /\ run[r].summaryCall.attempts = 5
    /\ run[r].summaryCall.thrown
    /\ run[r].summaryCall.statusRetries >= 1
    /\ run[r].summaryCall.exceptionRetries >= 1

\* run r has ended Failed: process.exit(1) with status Failed, which the run
\* history holds unless the best-effort update of the catch block failed as well
EndedFailed(r) ==
  /\ run[r].pc = "done" /\ run[r].status = "Failed" /\ run[r].exitCode = "1"
  /\ run[r].updateThrew # "catch" => [runId |-> r, status |-> "Failed"] \in JobRunHistory

\* the attempt of the call at which it first met 401 or 403 (0 when it met none)
FirstAuthAttempt(script, attempts) ==
  IF \E k \in 1..attempts : ResponseAt(script, k) \in AuthResponses
  THEN CHOOSE k \in 1..attempts :
         /\ ResponseAt(script, k) \in AuthResponses
         /\ \A j \in 1..(k - 1) : ResponseAt(script, j) \notin AuthResponses
  ELSE 0

\* C16: a 401 or 403 response ends the call at that attempt with a fatal error,
\* for the summary call and for the details call and after any number of
\* retries; the summary call's run has then ended Failed with exit code 1, and
\* the run of a worker whose details call met it is failing and ends Failed
\* with exit code 1
C16_AuthFailureEndsRun ==
  /\ run[1].pc = "idle" =>
       \A script \in remoteScripts :
         LET p == fetchPage(script)
             d == fetchWithRetry(script)
         IN /\ FirstAuthAttempt(script, p.attempts) \in {0, p.attempts}
            /\ FirstAuthAttempt(script, d.attempts) \in {0, d.attempts}
  /\ \A r \in Runs :
       /\ run[r].summaryCall.last \in AuthResponses =>
            /\ run[r].summaryCall.thrown /\ run[r].summaryCall.fatal
            /\ EndedFailed(r)
       /\ \A w \in Workers :
            worker[r][w].detailsCall.last \in AuthResponses =>
              /\ worker[r][w].detailsCall.thrown /\ worker[r][w].detailsCall.fatal
              /\ worker[r][w].pc = "exit"
              /\ run[r].pc \in {"failing", "done"}
              /\ run[r].pc = "done" => EndedFailed(r)

\* C16 witness: a details call met 403 after a retry and its run has ended Failed
C16_Witness ==
  \E r \in Runs : \E w \in Workers :
    /\ worker[r][w].detailsCall.last = "r403"
    /\ worker[r][w].detailsCall.attempts >= 2
    /\ counts[r].ingested >= 1
    /\ EndedFailed(r)

\* the payload has no row whose RecordType is Detail
LacksDetailRow(rows) == \A i \in DOMAIN rows : rows[i].RecordType # "Detail"

\* a step in which the details call of worker w of run r ends in a failure that is
\* not fatal: it threw after retry exhaustion, a non-JSON or non-array 2xx body or
\* another non-2xx status, or it returned rows without a Detail row
DetailsFailureStep(r, w) ==
  /\ worker[r][w].pc = "details"
  /\ worker'[r][w].detailsCall # NoCall
  /\ \/ worker'[r][w].detailsCall.thrown /\ ~worker'[r][w].detailsCall.fatal
     \/ /\ ~worker'[r][w].detailsCall.thrown
        /\ LacksDetailRow(remoteDetails[worker[r][w].report.reportId])

\* a worker of run r has met a fatal details error
FatalSeen(r) == \E w \in Workers : worker[r][w].detailsCall.fatal

\* a worker of run r has left processReport with an error of any kind
WorkerThrew(r) == \E w \in Workers : worker[r][w].threw # Null

\* C17: a details call that ends in retry exhaustion, a non-array or non-JSON 2xx
\* body, another non-2xx status or rows without a RecordType=Detail row adds
\* exactly one to detailsFailedCount, writes nothing to the store, leaves the
\* queue and the run going and sends the worker on; a run that has counted such
\* failures, in which no worker has thrown and whose run-history update has not
\* failed has, when it ends, taken every queued report through its details step
\* and ended Succeeded with exit code 0
C17_DetailsFailureIsolated ==
  /\ [][\A r \in Runs : \A w \in Workers :
          DetailsFailureStep(r, w) =>
            /\ counts'[r] = AddCounts(counts[r], [detailsFailedCount |-> 1])
            /\ UNCHANGED dbVars
            /\ queue'[r] = queue[r]
            /\ run'[r] = run[r]
            /\ worker'[r][w].pc = "resolve"]_vars
  /\ [](\A r \in Runs :
          (/\ run[r].pc = "done" /\ counts[r].detailsFailedCount >= 1
           /\ ~WorkerThrew(r) /\ run[r].updateThrew = Null) =>
            /\ run[r].status = "Succeeded" /\ run[r].exitCode = "0"
            /\ [runId |-> r, status |-> "Succeeded"] \in JobRunHistory
            /\ counts[r].detailsProcessed + counts[r].detailsAlreadyProcessed
                 + counts[r].detailsFailedCount
               = Len(QueueOf(run[r].selected, run[r].failedReportIds)))

\* C17 witness: the details call of one report has thrown at its fifth attempt,
\* detailsFailedCount is 1, and the other report of the batch is enriched
C17_Witness ==
  \E r \in Runs : \E w \in Workers :
    /\ worker[r][w].pc = "resolve"
    /\ worker[r][w].detailsCall.thrown
    /\ worker[r][w].detailsCall.attempts = 5
    /\ worker[r][w].detailsCall.last \in RetryableResponses
    /\ counts[r].detailsFailedCount = 1
    /\ counts[r].detailsProcessed = 1
    /\ \E x \in GoAuditsReportAnswers : x.reportId # worker[r][w].report.reportId
    /\ \A x \in GoAuditsReportAnswers : x.reportId # worker[r][w].report.reportId

\* all 5 attempts of run r's summary call met a retryable failure
SummaryExhausted(r) ==
  /\ run[r].summaryCall.attempts = 5
  /\ run[r].summaryCall.last \in RetryableResponses

\* C18: when all 5 attempts of the summary call fail with retryable errors the
\* call throws (it does not return an item list), the run has ended Failed with
\* zero counts, and the run has written no report row, no ledger row and no
\* watermark
C18_SummaryExhaustionFailsRun ==
  \A r \in Runs :
    SummaryExhausted(r) =>
      /\ run[r].summaryCall.thrown
      /\ EndedFailed(r)
      /\ run[r].summary = <<>> /\ run[r].selected = <<>>
      /\ counts[r] = ZeroCounts
      /\ \A x \in GoAuditsReports : x.jobRunId # r
      /\ \A p \in ProcessedItems : p.runId # r
      /\ Latest(r) =>
           getWatermark(JobWatermark) =
             [watermark |-> run[r].watermark, exists |-> run[r].watermarkExists]

\* C18 witness: after a first run that ingested the batch, the summary call of the
\* second run has failed 5 times and the run has ended Failed
C18_Witness ==
  /\ SummaryExhausted(2)
  /\ EndedFailed(2)
  /\ counts[1].ingested >= 1
  /\ JobWatermark # {}

\* C19: a run whose summary call ended on a 2xx response with valid JSON that is
\* not an array has ended Failed
C19_BadShapeSummaryFailsRun ==
  \A r \in Runs : run[r].summaryCall.last = "notArray" => EndedFailed(r)

\* the scoring of a report of run r met a rule with an unknown operator: the
\* rule document of the report's rule set throws on the report's stored answers,
\* the run counted a failed scoring and no SQL or HTTP failure has occurred
ScoringMetUnknownOperator(r) ==
  /\ counts[r].scoreFailedCount >= 1
  /\ faults = MaxFaults
  /\ \E i \in DOMAIN run[r].selected :
       LET answerMap == loadAnswers(GoAuditsReportAnswers, run[r].selected[i].reportId)
           rulesDoc == rulesFiles["PV"]
       IN /\ IsScoreEligible(rulesDoc, answerMap)
          /\ EvaluateRules(rulesDoc.rules, answerMap, rulesDoc.answerNormalization).threw

\* C20: a run whose scoring met a rule with an unknown operator has ended Failed
\* and has left the watermark as it read it
C20_UnknownOperatorFailsRun ==
  \A r \in Runs :
    (run[r].pc = "done" /\ Latest(r) /\ ScoringMetUnknownOperator(r)) =>
      /\ EndedFailed(r)
      /\ WatermarkUtc = run[r].watermark

\* ------------------------------------------------------- C21: item failures

\* run r has ended Failed after its worker phase had begun
FailedInWorkerPhase(r) ==
  /\ run[r].pc = "done"
  /\ run[r].status = "Failed"
  /\ ~run[r].summaryCall.thrown

\* C21: a failure met while a worker processes one report that is not a 401/403
\* (a failed details fetch, SQL read or write, transaction begin, ruleset
\* resolution, rule loading or evaluation) is counted and does not end the run
\* Failed: a run ends Failed in its worker phase only when a details call of one
\* of its workers met 401/403
C21_ItemFailureNeverFailsRun ==
  \A r \in Runs : FailedInWorkerPhase(r) => FatalSeen(r)

\* ----------------------------------------------------------- C22: dry run

\* a step of run r: it starts, or its locals, counters, queue or workers change
StepOf(r) ==
  \/ run'[r] # run[r]
  \/ counts'[r] # counts[r]
  \/ queue'[r] # queue[r]
  \/ worker'[r] # worker[r]

\* C22: no step of a dry run changes a table: run history, watermark, ledger,
\* Reports, ReportAnswers, Findings, Scores and the outbox stay as they were when
\* the run started, whatever the remote API answers and whether the run ends
\* Succeeded or Failed
C22_DryRunWritesNothing ==
  [][\A r \in Runs : (StepOf(r) /\ run'[r].cfg.dryRun) => UNCHANGED dbVars]_vars

\* C22 witness: a dry run with the outbox materialisation switched on has ended
\* after counting an ingested report, an enrichment and a scoring, over a store
\* in which an earlier real run had left rows, and the store holds no row of
\* the dry run
C22_Witness ==
  \E r, q \in Runs :
    /\ q < r
    /\ run[r].pc = "done" /\ run[r].cfg.dryRun /\ run[r].cfg.materialiseEmail
    /\ ~run[q].cfg.dryRun /\ GoAuditsReports # {}
    /\ counts[r].ingested + counts[r].ingestAlreadyProcessed >= 1
    /\ counts[r].detailsProcessed + counts[r].detailsAlreadyProcessed >= 1
    /\ counts[r].scoreProcessed + counts[r].scoreAlreadyProcessed >= 1
    /\ \A x \in JobRunHistory \cup ProcessedItems : x.runId # r

\* ------------------------------------------- C23: dry run against real run

\* the counters a dry run is to report as a real run would
PreviewCounters ==
  {"ingested", "ingestAlreadyProcessed", "detailsProcessed", "detailsAlreadyProcessed",
   "answersInsertedCount", "certUpdatedCount", "markedProcessedCount",
   "scoreProcessed", "scoreAlreadyProcessed", "skippedNotEligible",
   "findingsInsertedCount", "majorCountTotal", "minorCountTotal"}

\* run d was a dry run and run q, started next with the same settings, a real
\* run; both have ended and neither met a failing call or SQL statement.  The dry
\* run has written nothing, so both started from the same store, and the remote
\* side and the rule files have not changed.
DryThenReal(d, q) ==
  /\ d < q
  /\ run[d].pc = "done" /\ run[q].pc = "done"
  /\ run[d].cfg = [run[q].cfg EXCEPT !.dryRun = TRUE]
  /\ ~run[q].cfg.dryRun
  /\ faults = MaxFaults

\* C23: from the same store state and with the same remote responses a dry run
\* reports the same ingest, enrichment and scoring counters as a real run
C23_DryRunCountsAsRealRun ==
  \A d, q \in Runs :
    DryThenReal(d, q) => \A f \in PreviewCounters : counts[d][f] = counts[q][f]

\* ------------------------------------------------------- C24: evaluation

\* the operator of an enabled rule holds on the normalised answer
RuleHolds(rule, answerMap, defaultNorm) ==
  LET opts == NormOpts(rule, defaultNorm)
      answer == normalizeAnswer(AnswerRaw(rule, answerMap), opts)
      nc == rule.nonCompliantWhen
  IN /\ rule.enabled
     /\ \/ nc.op = "missing" /\ answer \in {Null, ""}
        \/ nc.op = "equals" /\ answer # Null /\ answer = normalizeAnswer(nc.value, opts)
        \/ nc.op = "in" /\ answer # Null
                        /\ \E v \in nc.values : answer = normalizeAnswer(v, opts)

\* the positions, in declaration order, of the rules that hold
HoldingRules(rulesDoc, answerMap) ==
  {i \in DOMAIN rulesDoc.rules :
     RuleHolds(rulesDoc.rules[i], answerMap, rulesDoc.answerNormalization)}

HoldingWith(rulesDoc, answerMap, severity) ==
  Cardinality({i \in HoldingRules(rulesDoc, answerMap) :
                 rulesDoc.rules[i].finding.severity = severity})

\* every enabled rule of the document uses missing, equals or in
Evaluable(rulesDoc) ==
  \A i \in DOMAIN rulesDoc.rules :
    rulesDoc.rules[i].enabled =>
      rulesDoc.rules[i].nonCompliantWhen.op \in {"missing", "equals", "in"}

OutcomeRuleMatches(rule, majorCount, minorCount) ==
  \/ rule.when.always
  \/ rule.when.majorCountGte # NoTime /\ majorCount >= rule.when.majorCountGte
  \/ rule.when.minorCountGte # NoTime /\ minorCount >= rule.when.minorCountGte

\* the outcome of the first outcome rule that matches, "Unknown" when none does
FirstMatchingOutcome(outcomeRules, majorCount, minorCount) ==
  LET matching == {i \in DOMAIN outcomeRules :
                     OutcomeRuleMatches(outcomeRules[i], majorCount, minorCount)}
  IN IF matching = {} THEN "Unknown"
     ELSE outcomeRules[CHOOSE i \in matching : \A j \in matching : i <= j].outcome

\* the answers a dry run evaluates: those of the details response
PayloadAnswers(reportId) == buildAnswerMap(extractAnswers(remoteDetails[reportId], {}))

S5Answers == ("1" :> "MCS-123") @@ ("7" :> "Bolt-on")

\* the key under which scenario S5 scores report R1
S5Key == <<IdOrder[1], "PV", DEFAULT_RULESET_MAP["PV"]>>

\* scenario S5 has been played: the PV rule set is the one of the scenario (one
\* rule on questionKey "7", no questionKeysAny, no ignoreQuestionKeys), the
\* stored answers of the report are {"1": "MCS-123", "7": "Bolt-on"}, and a
\* scoring transaction for the report has committed
S5Scored ==
  /\ rulesFiles = S5RulesFiles
  /\ loadAnswers(GoAuditsReportAnswers, IdOrder[1]) = S5Answers
  /\ HasScoringLedger(ProcessedItems, S5Key)

\* C25 (scenario S5): scoring the report commits one Major Finding with
\* MajorNonCompliantText populated and a Score row with majorCount 1,
\* minorCount 0, outcome "Fail" and scoreValue "Fail"
C25_S5CommitsMajorFinding ==
  S5Scored =>
    /\ \E f \in GoAuditsFindings :
         /\ <<f.reportId, f.ruleSetName, f.ruleSetVersion>> = S5Key
         /\ f.questionKey = "7"
         /\ f.severity = "Major"
         /\ f.majorNonCompliantText # Null
         /\ \A g \in GoAuditsFindings :
              <<g.reportId, g.ruleSetName, g.ruleSetVersion>> = S5Key => g = f
    /\ \E x \in GoAuditsScores :
         /\ <<x.reportId, x.ruleSetName, x.ruleSetVersion>> = S5Key
         /\ x.majorCount = 1 /\ x.minorCount = 0
         /\ x.outcome = "Fail" /\ x.scoreValue = "Fail"

\* ------------------------------------------- C26: enrichment before scoring

\* an enrichment transaction for the report has committed its ledger entry
EnrichmentCommitted(reportId) == isProcessed(ProcessedItems, ENRICHMENT_JOB_NAME, reportId)

\* worker w of run r has entered scoreReport for its report, or holds the
\* scoring transaction open
ScoringStarted(r, w) == worker[r][w].pc \in {"score", "scoreTx"}

\* C26: in a run that is not a dry run a worker reaches the scoring transaction
\* of a report only when an enrichment transaction of that report has committed
\* before, in this run, an earlier one or one that overlaps; and every Score row
\* belongs to a report that has an enrichment ledger entry
C26_EnrichBeforeScore ==
  /\ \A r \in Runs : \A w \in Workers :
       (ScoringStarted(r, w) /\ ~run[r].cfg.dryRun) =>
         EnrichmentCommitted(worker[r][w].report.reportId)
  /\ \A x \in GoAuditsScores : EnrichmentCommitted(x.reportId)

\* C26 witness: a worker holds the scoring transaction of a report open whose
\* enrichment was committed by another run, and a Score row of an enriched
\* report exists
C26_Witness ==
  \E r \in Runs : \E w \in Workers :
    /\ worker[r][w].pc = "scoreTx"
    /\ counts[r].detailsAlreadyProcessed = 1
    /\ \E p \in ProcessedItems :
         /\ p.jobName = ENRICHMENT_JOB_NAME
         /\ p.itemKey = worker[r][w].report.reportId
         /\ p.runId # r

\* ------------------------------------------------------ C27: worker queue

\* the queue main() hands to the workers of run r
InitialQueue(r) == QueueOf(run[r].selected, run[r].failedReportIds)

\* the workers of run r that are inside processReport
InFlight(r) == {w \in Workers : worker[r][w].pc # "exit"}

\* the processReport calls of run r that have passed their details step; each
\* call adds one to exactly one of the three counters there
DetailsStepsDone(r) ==
  counts[r].detailsProcessed + counts[r].detailsAlreadyProcessed
    + counts[r].detailsFailedCount

\* the workers of run r that have taken a report and not yet counted it
BeforeDetailsCount(r) == {w \in Workers : worker[r][w].pc \in {"details", "enrich"}}

\* the part of the initial queue that has been taken
Taken(r) == SubSeq(InitialQueue(r), 1, Len(InitialQueue(r)) - Len(queue[r]))

\* C27: DETAILS_CONCURRENCY = 3 worker tasks drain the queue.  At most 3 reports
\* are in flight; the queue is always the untaken rest of the initial queue and
\* the reports in flight are distinct taken entries, so no entry is taken by two
\* workers; while no worker has thrown, every taken entry is in flight or has
\* been counted once; and a run that finalises has an empty queue, no report in
\* flight and every entry of its initial queue counted exactly once
C27_QueueDrainedOnce ==
  \A r \in Runs :
    run[r].pc \in {"workers", "failing"} \/ (run[r].pc = "done" /\ HasBatch(r)) =>
      /\ Cardinality(Workers) = DETAILS_CONCURRENCY
      /\ Cardinality(InFlight(r)) <= DETAILS_CONCURRENCY
      /\ Len(queue[r]) <= Len(InitialQueue(r))
      /\ run[r].pc # "done" =>
           queue[r] = SubSeq(InitialQueue(r), Len(Taken(r)) + 1, Len(InitialQueue(r)))
      /\ \A w, v \in InFlight(r) :
           w # v => worker[r][w].report.reportId # worker[r][v].report.reportId
      /\ \A w \in InFlight(r) :
           /\ \E i \in DOMAIN Taken(r) : Taken(r)[i] = worker[r][w].report
           /\ \A i \in DOMAIN queue[r] : queue[r][i].reportId # worker[r][w].report.reportId
      /\ (run[r].pc = "workers" /\ ~WorkerThrew(r)) =>
           DetailsStepsDone(r) + Cardinality(BeforeDetailsCount(r)) = Len(Taken(r))
      /\ (run[r].pc = "done" /\ run[r].exitCode = "0") =>
           /\ queue[r] = <<>>
           /\ InFlight(r) = {}
           /\ DetailsStepsDone(r) = Len(InitialQueue(r))

\* C27 witness: a run over a queue of four reports has finalised Succeeded with
\* four reports enriched and scored, none of them met twice
C27_Witness ==
  \E r \in Runs :
    /\ Succeeded(r)
    /\ Len(InitialQueue(r)) = 4
    /\ counts[r].detailsProcessed = 4
    /\ counts[r].detailsAlreadyProcessed = 0
    /\ counts[r].scoreProcessed = 4
    /\ counts[r].scoreAlreadyProcessed = 0
    /\ Cardinality(GoAuditsScores) = 4

\* C27 second witness state: three reports in flight while the fourth waits
C27_ThreeInFlight ==
  \E r \in Runs : Cardinality(InFlight(r)) = 3 /\ Len(queue[r]) = 1

\* ----------------------------------------------- C28: fatal auth mid-batch

\* the tables the enrichment and scoring transactions write
WorkerTables ==
  <<ProcessedItems, GoAuditsReports, GoAuditsReportAnswers, GoAuditsFindings,
    GoAuditsScores>>

\* a details call of run r has raised 401/403 and the run has not exited yet
AuthRaised(r) == run[r].pc = "failing" /\ FatalSeen(r)

\* C28 (scenario S6): when a details call returns 401 while other workers are
\* running, the run ends Failed, the watermark advanced after ingest stays
\* advanced, and no enrichment or scoring transaction commits after the 401 has
\* been raised
C28_NoCommitAfterAuthFailure ==
  /\ [](\A r \in Runs :
          (run[r].pc = "done" /\ FatalSeen(r)) =>
            /\ EndedFailed(r)
            /\ (counts[r].ingestFailedCount = 0 /\ run[r].maxCompletedAtUtc # NoTime) =>
                 WatermarkUtc >= run[r].maxCompletedAtUtc)
  /\ [][\A r \in Runs : AuthRaised(r) => UNCHANGED WorkerTables]_vars

\* ---------------------------------------------- C29: certificate written once

\* the stored certificationNumber of the row is NULL or ''
StoredCertEmpty(x) == x.certificationNumber = Null \/ x.certificationNumber = ""

\* C29: across any sequence and interleaving of enrichment transactions the
\* certificationNumber of a report is written only while it is null or empty:
\* no step changes a certificationNumber that is not empty
C29_CertWrittenOnce ==
  [][\A x \in GoAuditsReports :
       ~StoredCertEmpty(x) =>
         \E y \in GoAuditsReports' :
           /\ y.reportId = x.reportId
           /\ y.certificationNumber = x.certificationNumber]_vars

\* C29 witness: two runs have each committed an enrichment transaction for the
\* report, the second one on a response that carries another certificate number
\* than the stored one, and the stored number is still the first
C29_Witness ==
  \E x \in GoAuditsReports :
    /\ x.certificationNumber = "MCS-123"
    /\ extractCertificate(remoteDetails[x.reportId]) = "MCS-456"
    /\ \E r, q \in Runs :
         /\ r # q
         /\ counts[r].detailsProcessed = 1 /\ counts[r].certUpdatedCount = 1
         /\ counts[q].detailsProcessed = 1 /\ counts[q].certUpdatedCount = 0
         /\ \E w \in Workers : extractCertificate(worker[q][w].rows) = "MCS-456"

\* ------------------------------------------------ C30: first answer wins

\* worker w of run r ends its enrichment transaction in this step
EnrichTxEnds(r, w) ==
  /\ worker[r][w].pc = "enrich"
  /\ worker'[r][w].pc # "enrich"
  /\ run'[r].pc # "done"

\* the rows of the transaction hold an answer whose key is stored already
RepeatsStoredKey(r, w) ==
  \E i \in DOMAIN worker[r][w].rows :
    /\ worker[r][w].rows[i].RecordType = "Detail"
    /\ AnswerDuplicate(GoAuditsReportAnswers, worker[r][w].report.reportId,
                       QuestionKeyOf(worker[r][w].rows[i]))

\* C30: for every (reportId, questionKey) the first committed ReportAnswer row
\* wins.  There is one row per key; no step changes or removes a stored row,
\* whether the same key comes again in the same response, from a later run or
\* from a concurrent worker; and an enrichment transaction on rows that repeat a
\* stored key, if no SQL error strikes it, commits and is counted as processed
C30_FirstAnswerWins ==
  /\ [](\A a, b \in GoAuditsReportAnswers :
          (a.reportId = b.reportId /\ a.questionKey = b.questionKey) => a = b)
  /\ [][/\ GoAuditsReportAnswers \subseteq GoAuditsReportAnswers'
        /\ \A r \in Runs : \A w \in Workers :
             (EnrichTxEnds(r, w) /\ RepeatsStoredKey(r, w) /\ faults' = faults) =>
               /\ counts'[r].detailsProcessed = counts[r].detailsProcessed + 1
               /\ counts'[r].detailsFailedCount = counts[r].detailsFailedCount
               /\ counts'[r].answersInsertedCount = counts[r].answersInsertedCount
                    + Cardinality(GoAuditsReportAnswers' \ GoAuditsReportAnswers)]_vars

\* C30 witness: a run has committed an enrichment transaction whose response
\* answers question 7 with "other" while the stored answer, committed first by
\* another run, is "Bolt-on"; it inserted no answer and the stored one stands
C30_Witness ==
  \E r, q \in Runs : \E w \in Workers :
    /\ r # q
    /\ counts[r].answersInsertedCount >= 1
    /\ counts[q].detailsProcessed = 1
    /\ counts[q].answersInsertedCount = 0
    /\ worker[q][w].pc = "resolve"
    /\ \E i \in DOMAIN worker[q][w].rows :
         /\ worker[q][w].rows[i].QUESTION_ID = "7"
         /\ worker[q][w].rows[i].Answer = "other"
    /\ \E a \in GoAuditsReportAnswers :
         /\ a.reportId = worker[q][w].report.reportId
         /\ a.questionKey = "7"
         /\ a.answerValue = "Bolt-on"

\* ------------------------------------------------ C31: the outbox

\* the key of an outbox row
OutboxKey(o) == <<o.reportId, o.ruleSetName, o.ruleSetVersion>>

\* every Score row that joins a report has an outbox row of its key
AllScoresMaterialised ==
  \A s \in GoAuditsScores :
    (\E rep \in GoAuditsReports : rep.reportId = s.reportId) =>
      \E o \in BagToSet(GoAuditsEmailOutbox) : SameOutboxKey(o, s)

\* C31: after any sequence of outbox materialisations the outbox holds at most
\* one row per (reportId, ruleSetName, ruleSetVersion), whatever the Installation
\* and Installer lookups hold, and a materialisation that finds every Score row
\* in the outbox already inserts nothing
C31_OutboxOneRowPerKey ==
  /\ [](\A o, p \in BagToSet(GoAuditsEmailOutbox) :
          /\ CopiesIn(o, GoAuditsEmailOutbox) = 1
          /\ OutboxKey(o) = OutboxKey(p) => o = p)
  /\ [][AllScoresMaterialised => GoAuditsEmailOutbox' = GoAuditsEmailOutbox]_vars

\* ------------------------------------------------ C32: the run-history row

\* the run-history rows of run r
HistoryOf(r) == {h \in JobRunHistory : h.runId = r}

\* run r is a real run that has started
RealRunStarted(r) == run[r].pc # "idle" /\ ~run[r].cfg.dryRun

\* no row of a ledger or of the reports names a run without a run-history row,
\* and a run has one run-history row from its start on
HistoryRowComesFirst ==
  /\ \A x \in ProcessedItems : HistoryOf(x.runId) # {}
  /\ \A x \in GoAuditsReports : HistoryOf(x.jobRunId) # {}
  /\ \A r \in Runs : RealRunStarted(r) => Cardinality(HistoryOf(r)) = 1

\* a run-history row changes only from Running to Succeeded or Failed
HistoryStepsOnce ==
  \A h \in JobRunHistory :
    \/ h \in JobRunHistory'
    \/ /\ h.status = "Running"
       /\ \E g \in JobRunHistory' :
            g.runId = h.runId /\ g.status \in {"Succeeded", "Failed"}

\* C32 as claimed: in a real run the run-history row is inserted as Running
\* before any other write and is updated exactly once on every way out of the
\* run: when the run has ended its row has the status the run ended with
C32_HistoryUpdatedExactlyOnce ==
  /\ [](HistoryRowComesFirst)
  /\ [](\A r \in Runs :
          (RealRunStarted(r) /\ run[r].pc = "done") =>
            HistoryOf(r) = {[runId |-> r, status |-> run[r].status]})
  /\ [][HistoryStepsOnce]_vars

\* C32: in a real run the run-history row is inserted as Running before any
\* other write; it changes at most once, from Running to Succeeded or Failed, and
\* never again; while the run is going it is Running; when the run has ended
\* it has the status the run ended with, unless the update of the failure
\* handler failed itself, and then the run ended Failed and the row is Running
C32_HistoryUpdatedAtMostOnce ==
  /\ [](HistoryRowComesFirst)
  /\ [](\A r \in Runs :
          RealRunStarted(r) =>
            HistoryOf(r) =
              {[runId |-> r,
                status |-> IF run[r].pc = "done" /\ run[r].updateThrew # "catch"
                           THEN run[r].status ELSE "Running"]})
  /\ [](\A r \in Runs :
          (run[r].pc = "done" /\ run[r].updateThrew # Null) => run[r].status = "Failed")
  /\ [][HistoryStepsOnce]_vars

\* C32 witness: the update to Succeeded failed, the failure handler's update
\* failed too, and the run has ended Failed with exit code 1 and its row Running
C32_Witness ==
  \E r \in Runs :
    /\ run[r].pc = "done" /\ ~run[r].cfg.dryRun
    /\ run[r].updateThrew = "catch" /\ run[r].exitCode = "1"
    /\ counts[r].scoreProcessed = 1
    /\ HistoryOf(r) = {[runId |-> r, status |-> "Running"]}

\* ------------------------------------------------ C33: the eligibility bound

\* run r has fetched the summary and filtered its items
Filtered(r) ==
  /\ run[r].pc \notin {"idle", "fetch"}
  /\ ~run[r].summaryCall.thrown
  /\ run[r].summaryCall.array

\* the summary items of run r completed after instant t
CompletedAfter(r, t) ==
  {i \in DOMAIN run[r].summary : run[r].summary[i].completedAt > t}

\* the greater of two instants
MaxOf(a, b) == IF a > b THEN a ELSE b

\* C33 as claimed: an item is eligible only if it was completed strictly after
\* max(startOverride, watermark): whatever the start override, no item completed
\* at or before the watermark the run has read is eligible or selected
C33_EligibleAboveMaxOfBounds ==
  \A r \in Runs :
    Filtered(r) =>
      /\ counts[r].eligible
           = Cardinality(CompletedAfter(r, MaxOf(run[r].cfg.startOverride, run[r].watermark)))
      /\ \A i \in DOMAIN run[r].selected :
           run[r].selected[i].completedAtUtc > run[r].watermark

\* C33: an item is eligible exactly if it was completed strictly after the lower
\* bound, which is the start override when one is set and the watermark the run
\* has read otherwise; every selected item was completed after that bound
C33_EligibleAboveLowerBound ==
  \A r \in Runs :
    Filtered(r) =>
      LET bound == IF run[r].cfg.startOverride = NoTime THEN run[r].watermark
                   ELSE run[r].cfg.startOverride
      IN  /\ counts[r].fetched = Len(run[r].summary)
          /\ counts[r].eligible = Cardinality(CompletedAfter(r, bound))
          /\ counts[r].skipped = Len(run[r].summary) - counts[r].eligible
          /\ \A i \in DOMAIN run[r].selected :
               run[r].selected[i].completedAtUtc > bound

\* C33 witness: a run whose start override lies before the watermark it has read
\* has selected an item completed at or before that watermark, and has skipped
\* another one completed at the start override
C33_Witness ==
  \E r \in Runs :
    /\ Filtered(r)
    /\ run[r].cfg.startOverride # NoTime
    /\ run[r].cfg.startOverride < run[r].watermark
    /\ counts[r].skipped >= 1
    /\ \E i \in DOMAIN run[r].selected :
         run[r].selected[i].completedAtUtc <= run[r].watermark

\* ------------------------------------------- C34, C35: question-key overlap

\* the keys among `keys` that rule set `name` names in a rule or ignores
HitsOf(name, keys) ==
  {k \in keys :
     \/ k \in rulesFiles[name].ignoreQuestionKeys
     \/ \E i \in DOMAIN rulesFiles[name].rules : k \in rulesFiles[name].rules[i].questionKeysAny}

\* the rule set with strictly more hits, Null on a tie
OverlapChoice(keys) ==
  IF Cardinality(HitsOf("PV", keys)) > Cardinality(HitsOf("HeatPump", keys)) THEN "PV"
  ELSE IF Cardinality(HitsOf("PV", keys)) < Cardinality(HitsOf("HeatPump", keys))
  THEN "HeatPump"
  ELSE Null

\* the question keys of the rows worker w of run r holds
RowKeys(r, w) ==
  {worker[r][w].rows[i].QUESTION_ID : i \in DOMAIN worker[r][w].rows} \ {Null, ""}

\* the question keys of the answers worker w of run r scores
AnswerKeys(r, w) ==
  IF worker[r][w].hasMap THEN DOMAIN worker[r][w].answerMap
  ELSE {a.questionKey : a \in {x \in GoAuditsReportAnswers :
                                 x.reportId = worker[r][w].report.reportId}}

\* worker w of run r resolves the rule set of a report without a hint in this
\* step, and no SQL read fails
OverlapStep(r, w) ==
  /\ run[r].pc = "workers" /\ run'[r].pc = "workers"
  /\ worker[r][w].pc = "resolve"
  /\ worker'[r][w] # worker[r][w]
  /\ worker[r][w].report.hint = Null
  /\ rulesFiles.PV.valid /\ rulesFiles.HeatPump.valid
  /\ faults' = faults

\* what the overlap of the observed keys resolves to: that of the rows, and if
\* that is none, that of the answers
Resolved(r, w) ==
  IF OverlapChoice(RowKeys(r, w)) # Null THEN OverlapChoice(RowKeys(r, w))
  ELSE OverlapChoice(AnswerKeys(r, w))

\* C34: question-key overlap resolution returns PV when the PV hit count of the
\* observed keys is strictly greater than the HeatPump hit count, HeatPump when
\* it is strictly smaller, and nothing when the counts are equal, both zero
\* included: a report with answers goes to scoring under the rule set with more
\* hits, and on a tie it does not go to scoring
C34_OverlapResolution ==
  [][\A r \in Runs : \A w \in Workers :
       OverlapStep(r, w) =>
         IF Resolved(r, w) # Null /\ AnswerKeys(r, w) # {}
         THEN /\ worker'[r][w].pc = "score"
              /\ worker'[r][w].ruleset = Resolved(r, w)
         ELSE worker'[r][w].pc # "score"]_vars

\* C34 witness: a worker scores a report without hint under PV, which two of
\* its three question keys hit, while HeatPump is hit by one
C34_Witness ==
  \E r \in Runs : \E w \in Workers :
    /\ worker[r][w].pc = "score"
    /\ worker[r][w].report.hint = Null
    /\ worker[r][w].ruleset = "PV"
    /\ Cardinality(HitsOf("PV", RowKeys(r, w))) = 2
    /\ Cardinality(HitsOf("HeatPump", RowKeys(r, w))) = 1

\* C35: when no rule set can be resolved for a report, scoring is skipped for
\* it: the step adds one to skippedNotEligible and to no other counter, writes
\* nothing to the store, and the worker leaves the report for the next one
C35_UnresolvedIsSkipped ==
  [][\A r \in Runs : \A w \in Workers :
       (OverlapStep(r, w) /\ Resolved(r, w) = Null) =>
         /\ counts'[r] = AddCounts(counts[r], [skippedNotEligible |-> 1])
         /\ UNCHANGED dbVars
         /\ worker'[r][w].pc \in {"details", "exit"}
         /\ worker'[r][w].report # worker[r][w].report]_vars

\* C35 witness: a run has ended that enriched a report whose keys 7 and 8 hit PV
\* and HeatPump once each; it counted the report as skipped, and the store
\* holds no scoring ledger entry, Finding or Score
C35_Witness ==
  \E r \in Runs :
    /\ run[r].pc = "done"
    /\ counts[r].detailsProcessed = 1
    /\ counts[r].skippedNotEligible = 1
    /\ {a.questionKey : a \in GoAuditsReportAnswers} = {"7", "8"}
    /\ Cardinality(HitsOf("PV", {"7", "8"})) = 1
    /\ Cardinality(HitsOf("HeatPump", {"7", "8"})) = 1
    /\ ~\E x \in ProcessedItems : x.jobName = SCORING_JOB_NAME
    /\ GoAuditsFindings = {} /\ GoAuditsScores = {}

\* ------------------------------------------------ C36: transaction discipline

\* the report of a ledger row
LedgerReport(x) == IF x.jobName = SCORING_JOB_NAME THEN x.itemKey[1] ELSE x.itemKey

\* the rows that are in one of two tables and not in the other
Changed(before, after) == (before \ after) \cup (after \ before)

\* the reports whose ledger, report, answer, finding or score rows this step changes
TouchedReports ==
  {LedgerReport(x) : x \in Changed(ProcessedItems, ProcessedItems')}
    \cup {x.reportId : x \in Changed(GoAuditsReports, GoAuditsReports')}
    \cup {x.reportId : x \in Changed(GoAuditsReportAnswers, GoAuditsReportAnswers')}
    \cup {x.reportId : x \in Changed(GoAuditsFindings, GoAuditsFindings')}
    \cup {x.reportId : x \in Changed(GoAuditsScores, GoAuditsScores')}

\* a transaction writes the rows of one item: no step changes rows of two reports
OneItemPerTransaction == Cardinality(TouchedReports) <= 1

\* the transactions of ingest and of scoring begin with the ledger insert
LedgerFirstInIngestAndScoring ==
  /\ \A r \in Runs : run[r].ingestTx # <<>> => Head(run[r].ingestTx) = "insertLedger"
  /\ \A r \in Runs : \A w \in Workers :
       worker[r][w].pc = "scoreTx" => Head(worker[r][w].tx) = "insertLedger"

\* the enrichment transactions the workers have ended
EnrichmentTraces ==
  {worker[x[1]][x[2]].tx :
     x \in {y \in Runs \X Workers : worker[y[1]][y[2]].pc = "resolve"}} \ {<<>>}

\* C36 as claimed: in each of the three stages the writes for one item happen in
\* one transaction scoped to that item, and the ledger insert is the first
\* statement of that transaction
C36_LedgerInsertFirst ==
  /\ [](LedgerFirstInIngestAndScoring)
  /\ [](\A tx \in EnrichmentTraces : Head(tx) = "insertLedger")
  /\ [][OneItemPerTransaction]_vars

\* C36: in each of the three stages the writes for one item happen in one
\* transaction scoped to that item.  The ledger insert is the first statement of
\* an ingest and of a scoring transaction.  An enrichment transaction begins
\* with the certificate update, an answer insert or the check query; its ledger
\* insert, made only when the report has answers, follows the check query and is
\* its last statement before the commit (or before the rollback, if it fails)
C36_LedgerInsertFirstOrLast ==
  /\ [](LedgerFirstInIngestAndScoring)
  /\ [](\A tx \in EnrichmentTraces :
          /\ Head(tx) \in {"updateCert", "insertAnswer", "check"}
          /\ \A i \in DOMAIN tx :
               tx[i] = "insertLedger" =>
                 /\ i > 1 /\ tx[i - 1] = "check"
                 /\ i < Len(tx) /\ tx[i + 1] \in {"commit", "rollback"})
  /\ [][OneItemPerTransaction]_vars

\* C36 witness: a run has ingested a report in a transaction that began with the
\* ledger insert, and its worker has committed the enrichment transaction of
\* that report: certificate, two answers, check, ledger insert, commit
C36_Witness ==
  \E r \in Runs : \E w \in Workers :
    /\ run[r].ingestTx = <<"insertLedger", "insertReport", "commit">>
    /\ worker[r][w].pc = "resolve"
    /\ worker[r][w].tx = <<"updateCert", "insertAnswer", "insertAnswer", "check",
                           "insertLedger", "commit">>
    /\ \E x \in ProcessedItems :
         /\ x.jobName = ENRICHMENT_JOB_NAME
         /\ x.itemKey = worker[r][w].report.reportId /\ x.runId = r

\* ------------------------------------------------ C37: a failed transaction

\* a SQL error ends the enrichment transaction of worker w of run r in this step
EnrichTxFails(r, w) ==
  /\ worker[r][w].pc = "enrich"
  /\ worker'[r][w].pc = "resolve"
  /\ faults' = faults - 1

\* a SQL error ends the scoring transaction of worker w of run r in this step
ScoreTxFails(r, w) ==
  /\ ~run[r].cfg.dryRun
  /\ worker[r][w].pc \in {"score", "scoreTx"}
  /\ worker'[r][w] # worker[r][w]
  /\ run'[r].pc = "workers"
  /\ faults' = faults - 1

\* C37: a SQL error other than a duplicate key inside a per-item enrichment or
\* scoring transaction rolls the transaction back: the store is as before the
\* item, the stage's failed counter goes up by one and no other counter changes
\* (answersInsertedCount, certUpdatedCount, markedProcessedCount and
\* findingsInsertedCount stay as they were), and the worker goes on
C37_FailedTransactionCountsOnlyFailure ==
  [][\A r \in Runs : \A w \in Workers :
       /\ EnrichTxFails(r, w) =>
            /\ UNCHANGED dbVars
            /\ counts'[r] = AddCounts(counts[r], [detailsFailedCount |-> 1])
            /\ run'[r] = run[r]
       /\ ScoreTxFails(r, w) =>
            /\ UNCHANGED dbVars
            /\ counts'[r] = AddCounts(counts[r], [scoreFailedCount |-> 1])
            /\ worker'[r][w].pc \in {"details", "exit"}]_vars

\* ------------------------------------- question keys, character by character

\* the longest question key the store holds (NVARCHAR(256))
KeyLimit == 256

\* digest('hex') of SHA-1 has forty characters
Sha1HexLen == 40

HexDigits == <<"0", "1", "2", "3", "4", "5", "6", "7", "8", "9", "a", "b", "c", "d", "e", "f">>

\* characters a question text is made of
TextChars == {"a", "Q", "7", " ", "_"}

WhiteSpace == {" "}
LowerAlnum == {"a", "q", "7"} \cup {HexDigits[i] : i \in DOMAIN HexDigits}

\* String.prototype.toLowerCase, one character
LowerChar(c) == IF c = "Q" THEN "q" ELSE c

toLowerCase(s) == [i \in 1..Len(s) |-> LowerChar(s[i])]

\* s.replace(/[cls]+/g, rep): every maximal run of characters of cls becomes rep
ReplaceRuns(s, cls, rep) ==
  LET first == SelectSeq([i \in 1..Len(s) |-> i],
                         LAMBDA i : s[i] \notin cls \/ i = 1 \/ s[i - 1] \notin cls)
  IN [k \in 1..Len(first) |-> IF s[first[k]] \in cls THEN rep ELSE s[first[k]]]

\* the runs of characters of cls at both ends of s removed (trim, /^_+|_+$/g)
StripEnds(s, cls) ==
  LET keep == {i \in 1..Len(s) : s[i] \notin cls}
  IN IF keep = {} THEN <<>>
     ELSE SubSeq(s, CHOOSE i \in keep : \A j \in keep : i <= j,
                    CHOOSE i \in keep : \A j \in keep : i >= j)

\* createHash('sha1').update(s).digest('hex'): forty lowercase hex digits that
\* depend on the text
sha1hex(s) ==
  [i \in 1..Sha1HexLen |->
     HexDigits[((Len(s) * i + Cardinality({j \in 1..Len(s) : s[j] = "_"})) % 16) + 1]]

\* the text branch of normalizeQuestionKey
normalizeQuestionText(questionText) ==
  IF questionText = <<>> THEN Null
  ELSE LET normalized ==
             StripEnds(
               ReplaceRuns(
                 StripEnds(ReplaceRuns(toLowerCase(questionText), WhiteSpace, " "),
                           WhiteSpace),
                 TextChars \ LowerAlnum, "_"),
               {"_"})
       IN IF normalized = <<>> THEN Null
          ELSE IF Len(normalized) <= KeyLimit THEN normalized
          ELSE LET hash == sha1hex(normalized)
                   prefix == SubSeq(normalized, 1, KeyLimit - Len(hash) - 1)
               IN prefix \o <<"_">> \o hash

\* normalizeQuestionKey(questionId, questionText)
normalizeQuestionKey(questionId, questionText) ==
  IF questionId # Null /\ Trim(questionId) # "" THEN Trim(questionId)
  ELSE normalizeQuestionText(questionText)

\* n times the character c
Rep(c, n) == [i \in 1..n |-> c]

\* question texts: up to three runs of one character each, short ones and ones
\* around the places where the long-key branch cuts
KeyTexts ==
  {Rep(c1, n1) \o Rep(c2, n2) \o Rep(c3, n3) :
     c1 \in {"a", "Q", "_"}, n1 \in {0, 1, 213, 214, 255},
     c2 \in {"7", " ", "_"}, n2 \in {0, 1, 2},
     c3 \in {"a", " "}, n3 \in {0, 1, 41, 83}}

\* the Detail rows of one details response, each with its derived key
KeyedRows(rows) ==
  [i \in 1..Len(rows) |->
     [row |-> rows[i], questionKey |-> normalizeQuestionKey(rows[i].QUESTION_ID, rows[i].Question)]]

\* extractAnswers on a response whose question texts are spelled out: the
\* worker's answer map gets the derived key of every Detail row that has one
ExtractKeys(r, w) ==
  /\ run[r].pc = "workers"
  /\ worker[r][w].pc = "keys"
  /\ \E keyed \in {KeyedRows(worker[r][w].rows)} :
       LET kept == SelectSeq(keyed, LAMBDA x : x.row.RecordType = "Detail" /\ x.questionKey # Null)
       IN worker' = [worker EXCEPT ![r][w].pc = "resolve",
                                   ![r][w].hasMap = TRUE,
                                   ![r][w].answerMap =
                                      [k \in {kept[i].questionKey : i \in 1..Len(kept)} |->
                                         kept[CHOOSE i \in 1..Len(kept) :
                                                kept[i].questionKey = k].row.Answer]]
  /\ UNCHANGED <<dbVars, envVars, run, counts, queue, faults, changes>>

\* one worker of the first run holds a details response of one Detail row with
\* or without a QUESTION_ID
KeyInit ==
  /\ JobWatermark = {} /\ JobRunHistory = {} /\ ProcessedItems = {}
  /\ GoAuditsReports = {} /\ GoAuditsReportAnswers = {}
  /\ GoAuditsFindings = {} /\ GoAuditsScores = {}
  /\ GoAuditsEmailOutbox = EmptyBag
  /\ Installation = {}
  /\ remoteSummary = <<>>
  /\ remoteDetails = [id \in ReportIds |-> CertPayload]
  /\ rulesFiles = StandardRulesFiles
  /\ remoteScripts = HardFailureScripts
  /\ run = [r \in Runs |-> IF r = 1 THEN [IdleRun EXCEPT !.pc = "workers"] ELSE IdleRun]
  /\ counts = [r \in Runs |-> ZeroCounts]
  /\ queue = [r \in Runs |-> <<>>]
  /\ \E id \in {Null, " ", "7"} : \E text \in KeyTexts :
       worker = [r \in Runs |-> [w \in Workers |->
                   IF r = 1 /\ w = 1
                   THEN [ExitedWorker EXCEPT !.pc = "keys",
                                             !.rows = <<[HeaderRow EXCEPT !.Question = <<>>],
                                                        DetailRow(id, text, "a")>>]
                   ELSE ExitedWorker]]
  /\ faults = 0
  /\ changes = 0

KeyNext == \E r \in Runs : \E w \in Workers : ExtractKeys(r, w)

KeySpec == KeyInit /\ [][KeyNext]_vars

\* question keys the workers hold that were derived from question text
TextKeys ==
  UNION {IF \A i \in 1..Len(worker[r][w].rows) :
               \/ worker[r][w].rows[i].QUESTION_ID = Null
               \/ Trim(worker[r][w].rows[i].QUESTION_ID) = ""
         THEN DOMAIN worker[r][w].answerMap
         ELSE {} : r \in Runs, w \in Workers}

\* C38: deriving a key from a key that was derived from question text gives the
\* same key, and every derived key has at most 256 characters
C38_KeyIdempotentAndBounded ==
  \A k \in TextKeys : normalizeQuestionKey(Null, k) = k /\ Len(k) <= KeyLimit

\* every derived key has at most 256 characters
KeysBounded == \A k \in TextKeys : Len(k) <= KeyLimit

\* ------------------------------------------- C39: scoring ledger and score

\* C39: every committed scoring ledger entry (GoAuditsScoring,
\* reportId|name|version) has a Score row for the same report, rule set name and
\* version: no state has a scoring ledger entry without its Score row
C39_ScoringLedgerHasScore ==
  \A p \in ProcessedItems :
    p.jobName = SCORING_JOB_NAME => HasScore(GoAuditsScores, p.itemKey)

\* ------------------------------------------------ C40: a failed details call

\* scheduled runs with the default configuration on a fixed remote snapshot
\* whose API fails at most MaxFaults calls and answers every later call
RetryInit ==
  /\ InitStore
  /\ remoteSummary \in SeqsUpTo(SummaryItems, MaxItems)
  /\ remoteDetails = [id \in ReportIds |-> CertPayload]
  /\ rulesFiles = StandardRulesFiles
  /\ remoteScripts = HardFailureScripts
  /\ faults = MaxFaults
  /\ changes = 0

RetryNext ==
  \/ \E r \in Runs : SequentialStart(r, DefaultConfig)
  \/ \E r \in Runs : RunStep(r)

\* the timer starts the next run once the previous one has exited, and a started
\* run goes on to its exit
RetrySpec == RetryInit /\ [][RetryNext]_vars /\ WF_vars(RetryNext)

\* the details call of the report failed in run r, which ingested it, and the
\* remote API answers every call from now on
DetailsCallFailed(r, reportId) ==
  /\ \E x \in GoAuditsReports : x.reportId = reportId /\ x.jobRunId = r
  /\ \E w \in Workers :
       /\ worker[r][w].report.reportId = reportId
       /\ worker[r][w].pc = "resolve"
       /\ worker[r][w].detailsCall.thrown
  /\ faults = 0

\* the answers and the enrichment ledger entry of the report are committed
Enriched(reportId) ==
  /\ isProcessed(ProcessedItems, ENRICHMENT_JOB_NAME, reportId)
  /\ \E a \in GoAuditsReportAnswers : a.reportId = reportId

\* C40: an ingested report is eventually enriched: when its details call failed
\* in the run that ingested it and the remote API answers from then on, a later
\* run with the same configuration and no start override commits its answers
\* and its enrichment ledger entry
C40_IngestedEventuallyEnriched ==
  \A r \in 1..(MaxRuns - 1) : \A reportId \in ReportIds :
    DetailsCallFailed(r, reportId) ~> Enriched(reportId)

\* why no later run helps: once the details call of a report has failed, the
\* stored watermark is at or above the report's completion time, and a run
\* without a start override selects only items completed after the watermark it
\* read at its start
FailedDetailsBelowWatermark ==
  /\ \A r \in Runs : \A reportId \in ReportIds :
       DetailsCallFailed(r, reportId) =>
         \E x \in GoAuditsReports :
           x.reportId = reportId /\ x.completedAtUtc <= WatermarkUtc
  /\ \A r \in Runs : \A i \in DOMAIN run[r].selected :
       run[r].selected[i].completedAtUtc > run[r].watermark

====
